---------------------------- MODULE Spec2Model ----------------------------
(***************************************************************************)
(* Check-orchestration layer of the FeedChecker renderer: the mode         *)
(* selector and result handoff of Home.handleSubmit, the three transport   *)
(* strategies (uploadWithProgress / checkFeed, checkFeedWithProgress,      *)
(* checkFeedWithPolling) and the response classification of FeedCheckerAPI.*)
(***************************************************************************)
EXTENDS Integers, Sequences, FiniteSets, TLC

(***************************************************************************)
(* Values.  A JavaScript string that the code inspects character by        *)
(* character (a response body) is a sequence of one-character strings;     *)
(* null / undefined are the strings below.                                 *)
(***************************************************************************)
Null == "null"

\* obj.field is present and truthy (a non-empty string field of a JSON object)
Has(o, f) == f \in DOMAIN o /\ o[f] # ""

\* obj.field || dflt, for a string field
FieldOr(o, f, dflt) == IF Has(o, f) THEN o[f] ELSE dflt

\* a value that is either a string or an object travels as [str |-> s] or as
\* the object itself (typeof v === 'string')
IsString(v) == "str" \in DOMAIN v

(***************************************************************************)
(* String.prototype.trim / toLowerCase / startsWith over character         *)
(* sequences.                                                              *)
(***************************************************************************)

RECURSIVE TrimStart(_)
TrimStart(s) ==
  IF s # <<>> /\ Head(s) \in {" ", "\n", "\t"} THEN TrimStart(Tail(s)) ELSE s

RECURSIVE TrimEnd(_)
TrimEnd(s) ==
  IF s # <<>> /\ s[Len(s)] \in {" ", "\n", "\t"}
    THEN TrimEnd(SubSeq(s, 1, Len(s) - 1)) ELSE s

Trim(s) == TrimEnd(TrimStart(s))

LowerOf(c) ==
  CASE c = "D" -> "d" [] c = "O" -> "o" [] c = "C" -> "c" [] c = "T" -> "t"
    [] c = "Y" -> "y" [] c = "P" -> "p" [] c = "E" -> "e" [] c = "H" -> "h"
    [] c = "M" -> "m" [] c = "L" -> "l" [] c = "B" -> "b" [] c = "A" -> "a"
    [] OTHER -> c

ToLowerCase(s) == [i \in 1..Len(s) |-> LowerOf(s[i])]

StartsWith(s, p) == Len(s) >= Len(p) /\ SubSeq(s, 1, Len(p)) = p

(***************************************************************************)
(* HTTP responses as fetch() delivers them.  A response has a status, a    *)
(* content-type (json: the header includes application/json) and a body;   *)
(* a body is its text and what JSON.parse makes of that text.              *)
(***************************************************************************)
NoJson == [nojson |-> TRUE]

DoctypeUpperText == <<"<", "!", "D", "O", "C", "T", "Y", "P", "E", " ", "h", "t", "m", "l", ">">>
DoctypeLowerText == <<"\n", " ", "<", "!", "d", "o", "c", "t", "y", "p", "e", ">">>
HtmlLowerText == <<"<", "h", "t", "m", "l", ">">>
HtmlUpperText == <<" ", "<", "H", "T", "M", "L", ">">>

HtmlBodies == {[text |-> t, data |-> NoJson] : t \in {DoctypeUpperText, DoctypeLowerText, HtmlLowerText, HtmlUpperText}}
PlainBody == [text |-> <<"B", "a", "d", " ", "G", "a", "t", "e", "w", "a", "y">>, data |-> NoJson]
JsonBody(d) == [text |-> <<"{", "}">>, data |-> d]

\* response.ok
IsOk(r) == r.status >= 200 /\ r.status <= 299

\* fetch() rejected with TypeError("Failed to fetch")
NetworkFailure == [net |-> "Failed to fetch"]
IsNetworkFailure(r) == "net" \in DOMAIN r

\* JSON.parse(text) / response.json() succeeds
Parses(b) == b.data # NoJson

(***************************************************************************)
(* Outcomes of an API call and the messages of the errors it throws.       *)
(***************************************************************************)
NoDownload == [none |-> TRUE]

Resolve(v) == [ok |-> TRUE, value |-> v]
Reject(m) == [ok |-> FALSE, message |-> m, downloadError |-> NoDownload]
RejectDownload(m, d) == [ok |-> FALSE, message |-> m, downloadError |-> d]

MsgHtmlPage == "Server returned an HTML page instead of data"
MsgBadGatewayLong == "Server unavailable (502 Bad Gateway). Backend is not responding. Check the backend logs."
MsgBadGateway == "Server unavailable (502 Bad Gateway). Backend is not responding."
MsgUnexpectedFormat == "Server returned an unexpected format"
MsgSyntaxError == "SyntaxError: Unexpected token in JSON"
MsgNoConnection == "Could not connect to the server"
MsgCheckFailed == "Error while checking the feed"
MsgObjectObject == "[object Object]"
\* `Ошибка ${response.status}: ${response.statusText}`
MsgStatus(r) ==
  CASE r.status = 404 -> "Error 404: Not Found"
    [] r.status = 502 -> "Error 502: Bad Gateway"
    [] r.status = 500 -> "Error 500: Internal Server Error"
    [] OTHER -> "Error"

\* text.trim().toLowerCase().startsWith('<!doctype') || ...startsWith('<html')
LooksLikeHtmlLower(text) ==
  \/ StartsWith(ToLowerCase(Trim(text)), <<"<", "!", "d", "o", "c", "t", "y", "p", "e">>)
  \/ StartsWith(ToLowerCase(Trim(text)), <<"<", "h", "t", "m", "l">>)

\* text.trim().startsWith("<!") || text.trim().startsWith("<html")
LooksLikeHtml(text) ==
  \/ StartsWith(Trim(text), <<"<", "!">>)
  \/ StartsWith(Trim(text), <<"<", "h", "t", "m", "l">>)

(***************************************************************************)
(* FeedCheckerAPI: what each method makes of the response it receives.     *)
(***************************************************************************)

\* checkFeed, non-OK JSON response: the `detail` of the error body
CheckFeedErrorDetail(errorData) ==
  IF "detail" \notin DOMAIN errorData THEN Reject(MsgCheckFailed)
  ELSE LET detail == errorData.detail IN
    IF IsString(detail) THEN Reject(detail.str)
    ELSE IF FieldOr(detail, "error_type", "") = "DOWNLOAD_ERROR" \/ Has(detail, "error_code")
      THEN RejectDownload(FieldOr(detail, "message", "Feed download error"), detail)
      ELSE Reject(FieldOr(detail, "message", MsgObjectObject))

checkFeed(r) ==
  IF IsNetworkFailure(r) THEN Reject(MsgNoConnection)
  ELSE IF ~IsOk(r) THEN
    IF ~r.json THEN
      IF LooksLikeHtmlLower(r.body.text) THEN Reject(MsgHtmlPage)
      ELSE Reject(MsgStatus(r))
    ELSE IF ~Parses(r.body) THEN Reject(MsgSyntaxError)
    ELSE CheckFeedErrorDetail(r.body.data)
  ELSE IF ~r.json THEN
    IF LooksLikeHtml(r.body.text) THEN Reject(MsgBadGatewayLong)
    ELSE IF Parses(r.body) THEN Resolve(r.body.data)
    ELSE Reject(MsgUnexpectedFormat)
  ELSE IF Parses(r.body) THEN Resolve(r.body.data)
  ELSE Reject(MsgSyntaxError)

checkSyntax(r) ==
  IF IsNetworkFailure(r) THEN Reject(MsgNoConnection)
  ELSE IF ~r.json THEN
    IF LooksLikeHtml(r.body.text) THEN Reject(MsgBadGateway)
    ELSE IF Parses(r.body) THEN Resolve(r.body.data)
    ELSE Reject(MsgUnexpectedFormat)
  ELSE IF ~IsOk(r) THEN Reject(MsgStatus(r))
  ELSE IF Parses(r.body) THEN Resolve(r.body.data)
  ELSE Reject(MsgSyntaxError)

getProblematicOffers(r) ==
  IF IsNetworkFailure(r) THEN Reject(MsgNoConnection)
  ELSE IF ~r.json THEN
    IF LooksLikeHtml(r.body.text) THEN Reject(MsgBadGateway)
    ELSE IF Parses(r.body) THEN Resolve(r.body.data)
    ELSE Reject(MsgUnexpectedFormat)
  ELSE IF ~IsOk(r) THEN Reject(MsgStatus(r))
  ELSE IF Parses(r.body) THEN Resolve(r.body.data)
  ELSE Reject(MsgSyntaxError)

\* no try/catch and no content-type check: a failed fetch and a failed
\* response.json() propagate as they are
exportToExcel(r) ==
  IF IsNetworkFailure(r) THEN Reject("Failed to fetch")
  ELSE IF ~IsOk(r) THEN
    IF ~Parses(r.body) THEN Reject(MsgSyntaxError)
    ELSE IF "detail" \in DOMAIN r.body.data /\ IsString(r.body.data.detail)
              /\ r.body.data.detail.str # ""
      THEN Reject(r.body.data.detail.str)
      ELSE Reject("Error while exporting to Excel")
  ELSE Resolve([blob |-> r.body.text])

checkFeedAsync(r) ==
  IF IsNetworkFailure(r) THEN Reject(MsgNoConnection)
  ELSE IF ~r.json THEN
    IF LooksLikeHtml(r.body.text) THEN Reject(MsgBadGatewayLong)
    ELSE IF Parses(r.body) THEN Resolve(r.body.data)
    ELSE Reject(MsgUnexpectedFormat)
  ELSE IF ~IsOk(r) THEN Reject(MsgStatus(r))
  ELSE IF Parses(r.body) THEN Resolve(r.body.data)
  ELSE Reject(MsgSyntaxError)

getJobStatus(r) ==
  IF IsNetworkFailure(r) THEN Reject(MsgNoConnection)
  ELSE IF ~r.json THEN
    IF LooksLikeHtml(r.body.text) THEN Reject(MsgBadGatewayLong)
    ELSE IF Parses(r.body) THEN Resolve(r.body.data)
    ELSE Reject(MsgUnexpectedFormat)
  ELSE IF ~IsOk(r) THEN
    IF r.status = 404 THEN Reject("Job not found") ELSE Reject(MsgStatus(r))
  ELSE IF Parses(r.body) THEN Resolve(r.body.data)
  ELSE Reject(MsgSyntaxError)

deleteJob(r) ==
  IF IsNetworkFailure(r) THEN Reject(MsgNoConnection)
  ELSE IF ~r.json THEN
    IF LooksLikeHtml(r.body.text) THEN Reject(MsgBadGateway)
    ELSE Resolve([void |-> TRUE])
  ELSE IF ~IsOk(r) THEN Reject(MsgStatus(r))
  ELSE Resolve([void |-> TRUE])

(***************************************************************************)
(* Check results as the backend returns them (types FeedCheckResult and    *)
(* DeltaFeedCheckResult) and the download-error detail (FeedDownloadError).*)
(***************************************************************************)
SiteIdNumber == 12345

XmlOk ==
  [site_id |-> SiteIdNumber,
   syntax |-> [valid |-> TRUE, message |-> "ok"],
   mandatory |-> [total_offers |-> 2, valid_offers |-> 1, problems_count |-> 1,
                  problems_summary |-> "summary", problems |-> "problems",
                  duplicate_ids |-> "duplicates"],
   problematic_offers |-> "offers",
   categories |-> "category issues",
   category_tree |-> "tree",
   params_stats |-> "params",
   attributes_analysis |-> "attributes"]

XmlParamErrors ==
  [site_id |-> SiteIdNumber,
   syntax |-> [valid |-> FALSE, message |-> "bad param",
               error_code |-> "PARAM_VALIDATION_ERROR"],
   problematic_offers |-> "offers"]

XmlSyntaxCritical ==
  [site_id |-> SiteIdNumber,
   syntax |-> [valid |-> FALSE, message |-> "not well-formed"]]

XmlValidationError ==
  [site_id |-> SiteIdNumber, validation_error |-> TRUE, message |-> "invalid feed"]

XmlParamValidationError ==
  [site_id |-> SiteIdNumber, validation_error |-> TRUE, message |-> "invalid params",
   param_validation_error |-> TRUE, errors |-> <<"e1">>]

DeltaOk ==
  [site_id |-> SiteIdNumber, feed_type |-> "delta",
   parsing |-> [total_rows |-> 2], summary |-> [total_rows |-> 2],
   problems |-> "problems", duplicate_ids_details |-> "duplicates"]

DeltaValidationError ==
  [site_id |-> SiteIdNumber, feed_type |-> "delta", validation_error |-> TRUE,
   message |-> "bad csv", error_details |-> [error_type |-> "CSV_ERROR"]]

DeltaNoSummary ==
  [site_id |-> SiteIdNumber, feed_type |-> "delta",
   parsing |-> [error |-> "no rows"]]

\* `undefined`: a complete event that carries no result
NoResult == [undefined |-> TRUE]

Results ==
  {XmlOk, XmlParamErrors, XmlSyntaxCritical, XmlValidationError,
   XmlParamValidationError, DeltaOk, DeltaValidationError, DeltaNoSummary}

\* a download failure as the backend describes it; error_type is spelled
\* "DOWNLOAD_ERROR" in the FeedDownloadError type and in the check-feed
\* detail, "download_error" in the stream's error event
DownloadFailure(errorType) ==
  [error_type |-> errorType, error_code |-> "HTTP_ERROR", message |-> "HTTP 404",
   url |-> "http://x/feed.xml", http_status |-> 404,
   details |-> [error_type |-> "HTTPError", technical_message |-> "404 Not Found",
                suggestion |-> "check the url"]]

(***************************************************************************)
(* Home.tsx: the form, the mode selector and the rest of handleSubmit.     *)
(***************************************************************************)
AsyncThreshold == 50 * 1024 * 1024

NoFile == [none |-> TRUE]
File(size) == [name |-> "feed.xml", size |-> size]

FeedUrl == "http://x/feed.xml"

\* the form states a submission can find: siteId and feedUrl are free text,
\* feedFile is what the file input last selected (it survives a switch of the
\* source tab)
Forms ==
  { [siteId |-> s, sourceType |-> st, feedUrl |-> u, feedFile |-> f,
     feedType |-> ft, useAsyncMode |-> a] :
      s \in {"", "abc", "12345"}, st \in {"url", "file"}, u \in {"", FeedUrl},
      f \in {NoFile} \cup {File(n) : n \in {1024, AsyncThreshold, AsyncThreshold + 1, 80 * 1024 * 1024}},
      ft \in {"xml", "delta"}, a \in BOOLEAN }

\* isNaN(Number(siteId))
IsNaNNumber(s) == s = "abc"

\* the validation at the head of handleSubmit: the message it sets, or Null
ValidationError(form) ==
  IF form.siteId = "" \/ IsNaNNumber(form.siteId) THEN "Enter a correct Site ID"
  ELSE IF form.sourceType = "url" /\ form.feedUrl = "" THEN "Enter the feed URL"
  ELSE IF form.sourceType = "file" /\ form.feedFile = NoFile THEN "Choose the feed file"
  ELSE Null

\* variant: only the async flag decides, the size of the file does not
shouldUseAsyncFlagOnly(form) == form.useAsyncMode

shouldUseAsync(form) ==
  \/ form.useAsyncMode
  \/ (form.sourceType = "file" /\ form.feedFile # NoFile
        /\ form.feedFile.size > AsyncThreshold)

\* variant: the file branch is tried before the async branch
SelectStrategyFileFirst(form) ==
  IF form.sourceType = "file" /\ form.feedFile # NoFile THEN "uploadWithProgress"
  ELSE IF shouldUseAsync(form) THEN "checkFeedWithPolling"
  ELSE IF form.feedType = "delta" THEN "checkFeed"
  ELSE "checkFeedWithProgress"

\* the strategy handleSubmit invokes, by the name of the function it calls
SelectStrategy(form) ==
  IF shouldUseAsync(form) THEN "checkFeedWithPolling"
  ELSE IF form.sourceType = "file" /\ form.feedFile # NoFile THEN "uploadWithProgress"
  ELSE IF form.feedType = "delta" THEN "checkFeed"
  ELSE "checkFeedWithProgress"

(***************************************************************************)
(* Result handoff: sessionStorage with a quota, JSON.stringify, navigate.  *)
(***************************************************************************)
HeavyFields == {"problematic_offers", "category_tree", "params_stats", "attributes_analysis"}
HeavySize == 3

\* length of JSON.stringify(v), in units: one per field, HeavySize for a
\* per-offer detail field, one per field of the `mandatory` object, one more
\* for the url of a source context (longer than a file name or null)
StringSize(v) == Cardinality(DOMAIN v)
  + (HeavySize - 1) * Cardinality((DOMAIN v) \cap HeavyFields)
  + (IF "mandatory" \in DOMAIN v THEN Cardinality(DOMAIN v.mandatory) - 1 ELSE 0)
  + (IF "feedUrl" \in DOMAIN v /\ v.feedUrl # Null THEN 1 ELSE 0)

NoItem == [absent |-> TRUE]
EmptyStorage == [feedCheckResult |-> NoItem, feedSource |-> NoItem]

ItemSize(item) == IF item = NoItem THEN 0 ELSE StringSize(item)

\* sessionStorage.setItem(key, JSON.stringify(v)) under a quota q: the new
\* storage, or the failure it throws ("QuotaExceededError"); with storage
\* access denied (q < 0) every call throws a SecurityError
SetItem(st, key, v, q) ==
  IF q < 0 THEN [ok |-> FALSE, name |-> "SecurityError", st |-> st]
  ELSE IF ItemSize(st.feedCheckResult) + ItemSize(st.feedSource)
            - ItemSize(st[key]) + StringSize(v) > q
    THEN [ok |-> FALSE, name |-> "QuotaExceededError", st |-> st]
    ELSE [ok |-> TRUE, name |-> "", st |-> [st EXCEPT ![key] = v]]

\* the source context written under "feedSource"
SourceContext(form) ==
  [siteId |-> SiteIdNumber,
   feedUrl |-> IF form.sourceType = "url" THEN form.feedUrl ELSE Null,
   fileName |-> IF form.sourceType = "file" /\ form.feedFile # NoFile
                  THEN form.feedFile.name ELSE Null,
   feedType |-> form.feedType]

\* minimalResult with the statistics-only branch taken for every feed type
MinimalResultStatisticsOnly(result, feedType) ==
  LET kept == (DOMAIN result) \cap {"site_id", "syntax", "mandatory", "categories"}
  IN [f \in kept \cup {"feed_type"} |->
        IF f = "feed_type" THEN FieldOr(result, "feed_type", feedType)
        ELSE IF f = "mandatory"
          THEN [g \in (DOMAIN result.mandatory) \cap
                   {"total_offers", "valid_offers", "problems_count", "problems_summary"}
                  |-> result.mandatory[g]]
        ELSE result[f]]

\* minimalResult of handleSubmit (undefined fields vanish in JSON.stringify)
MinimalResult(result, feedType) ==
  LET kept == IF feedType = "xml"
                THEN (DOMAIN result) \cap {"site_id", "syntax", "mandatory", "categories"}
                ELSE DOMAIN result
  IN [f \in kept \cup {"feed_type"} |->
        IF f = "feed_type" THEN FieldOr(result, "feed_type", feedType)
        ELSE IF f = "mandatory" /\ feedType = "xml"
          THEN [g \in (DOMAIN result.mandatory) \cap
                   {"total_offers", "valid_offers", "problems_count", "problems_summary"}
                  |-> result.mandatory[g]]
        ELSE result[f]]

NoNavState == [none |-> TRUE]
\* the Results component before its effect has run: result and feedSource null
NoView == [loaded |-> FALSE]

MsgTooLarge == "The check result is too large to save"
MsgSecurityError == "SecurityError: the operation is insecure"

\* one sessionStorage.setItem call of the handoff and the error it threw
\* ("" when it stored the item)
Write(key, v, w) == [key |-> key, value |-> v, error |-> w.name]

\* variant: the view moves to the results although the reduced write failed
HandoffAlwaysNavigates(result, form, st, q) ==
  LET w1 == SetItem(st, "feedCheckResult", result, q)
      w2 == SetItem(w1.st, "feedSource", SourceContext(form), q)
      first == IF w1.ok THEN w2 ELSE w1
      log1 == IF w1.ok THEN <<Write("feedCheckResult", result, w1),
                              Write("feedSource", SourceContext(form), w2)>>
              ELSE <<Write("feedCheckResult", result, w1)>>
      minimalResult == MinimalResult(result, form.feedType)
      m1 == SetItem(first.st, "feedCheckResult", minimalResult, q)
      m2 == SetItem(m1.st, "feedSource", SourceContext(form), q)
      second == IF m1.ok THEN m2 ELSE m1
      log2 == IF m1.ok THEN <<Write("feedCheckResult", minimalResult, m1),
                              Write("feedSource", SourceContext(form), m2)>>
              ELSE <<Write("feedCheckResult", minimalResult, m1)>>
  IN IF first.ok
       THEN [storage |-> first.st, route |-> "/results", navState |-> NoNavState,
             error |-> Null, thrown |-> Null, writes |-> log1]
     ELSE IF first.name # "QuotaExceededError"
       THEN [storage |-> first.st, route |-> "/", navState |-> NoNavState,
             error |-> Null, thrown |-> MsgSecurityError, writes |-> log1]
     ELSE [storage |-> second.st, route |-> "/results",
           navState |-> [fullResult |-> result, feedSource |-> SourceContext(form)],
           error |-> Null, thrown |-> Null, writes |-> log1 \o log2]

\* the try/catch around the two sessionStorage writes at the end of the try
\* block of handleSubmit: what is stored, where the view goes, what is shown
\* (thrown: the error rethrown to the outer catch, or Null), and the setItem
\* calls made
Handoff(result, form, st, q) ==
  LET w1 == SetItem(st, "feedCheckResult", result, q)
      w2 == SetItem(w1.st, "feedSource", SourceContext(form), q)
      first == IF w1.ok THEN w2 ELSE w1
      log1 == IF w1.ok THEN <<Write("feedCheckResult", result, w1),
                              Write("feedSource", SourceContext(form), w2)>>
              ELSE <<Write("feedCheckResult", result, w1)>>
      minimalResult == MinimalResult(result, form.feedType)
      m1 == SetItem(first.st, "feedCheckResult", minimalResult, q)
      m2 == SetItem(m1.st, "feedSource", SourceContext(form), q)
      second == IF m1.ok THEN m2 ELSE m1
      log2 == IF m1.ok THEN <<Write("feedCheckResult", minimalResult, m1),
                              Write("feedSource", SourceContext(form), m2)>>
              ELSE <<Write("feedCheckResult", minimalResult, m1)>>
  IN IF first.ok
       THEN [storage |-> first.st, route |-> "/results", navState |-> NoNavState,
             error |-> Null, thrown |-> Null, writes |-> log1]
     ELSE IF first.name # "QuotaExceededError"
       THEN [storage |-> first.st, route |-> "/", navState |-> NoNavState,
             error |-> Null, thrown |-> MsgSecurityError, writes |-> log1]
     ELSE IF second.ok
       THEN [storage |-> second.st, route |-> "/results",
             navState |-> [fullResult |-> result, feedSource |-> SourceContext(form)],
             error |-> Null, thrown |-> Null, writes |-> log1 \o log2]
     ELSE [storage |-> second.st, route |-> "/", navState |-> NoNavState,
           error |-> MsgTooLarge, thrown |-> Null, writes |-> log1 \o log2]

(***************************************************************************)
(* handleSubmit after the strategy's promise has settled: the checks of    *)
(* the result, the handoff, the catch block.  The finally block is in      *)
(* Resume below.                                                           *)
(***************************************************************************)
Flag(o, f) == f \in DOMAIN o /\ o[f] = TRUE
HasObject(o, f) == f \in DOMAIN o

MsgXmlCheckFailed == "Error while checking the XML feed"
MsgDeltaCheckFailed == "Error while checking the delta feed"
Stay(st, err, down) ==
  [storage |-> st, route |-> "/", navState |-> NoNavState,
   error |-> err, downloadError |-> down, writes |-> <<>>]

\* variant: the catch block keeps the message next to the download detail
ShowErrorKeepsMessage(st, message, down) ==
  IF down # NoDownload THEN Stay(st, message, down) ELSE Stay(st, message, NoDownload)

\* the catch (err) block
ShowError(st, message, down) ==
  IF down # NoDownload THEN Stay(st, Null, down) ELSE Stay(st, message, NoDownload)

\* the panel built for a validation_error result of an XML feed
ParamValidationPanel(result, form) ==
  [error_type |-> "VALIDATION_ERROR", error_code |-> "PARAM_VALIDATION_ERROR",
   message |-> FieldOr(result, "message", MsgXmlCheckFailed),
   url |-> IF form.sourceType = "url" THEN form.feedUrl ELSE "",
   details |-> [param_validation_error |-> TRUE, errors |-> result.errors]]

\* the panel built for a delta result without usable parsing/summary
DeltaPanel(code, message, details, form) ==
  [error_type |-> "DOWNLOAD_ERROR", error_code |-> code, message |-> message,
   url |-> IF form.sourceType = "url" THEN form.feedUrl ELSE "",
   details |-> details]

XmlChecks(result, form, st) ==
  IF Flag(result, "validation_error")
    THEN IF Flag(result, "param_validation_error") /\ HasObject(result, "errors")
           THEN Stay(st, Null, ParamValidationPanel(result, form))
           ELSE Stay(st, FieldOr(result, "message", MsgXmlCheckFailed), NoDownload)
  ELSE IF HasObject(result, "syntax") /\ ~result.syntax.valid
            /\ ~(FieldOr(result.syntax, "error_code", "")
                   \in {"PARAM_VALIDATION_ERROR", "PARAM_DUPLICATE_ERROR"}
                 \/ HasObject(result.syntax, "param_validation_errors")
                 \/ HasObject(result.syntax, "duplicate_param_errors"))
            /\ ~HasObject(result, "mandatory") /\ ~HasObject(result, "categories")
    THEN Stay(st, FieldOr(result.syntax, "human_message",
                  FieldOr(result.syntax, "message", "Unknown error")), NoDownload)
  ELSE [continue |-> TRUE]

DeltaChecks(result, form, st) ==
  IF Flag(result, "validation_error")
    THEN IF HasObject(result, "error_details")
           THEN Stay(st, Null,
                  DeltaPanel(FieldOr(result.error_details, "error_type", "VALIDATION_ERROR"),
                             FieldOr(result, "message", MsgDeltaCheckFailed),
                             result.error_details, form))
         ELSE IF HasObject(result, "parsing") /\ HasObject(result.parsing, "error_details")
           THEN Stay(st, Null,
                  DeltaPanel(FieldOr(result.parsing.error_details, "error_type", "VALIDATION_ERROR"),
                             FieldOr(result, "message", MsgDeltaCheckFailed),
                             result.parsing.error_details, form))
         ELSE Stay(st, FieldOr(result, "message", MsgDeltaCheckFailed), NoDownload)
  ELSE IF ~HasObject(result, "parsing") \/ ~HasObject(result, "summary")
    THEN LET message ==
               IF HasObject(result, "parsing") /\ Has(result.parsing, "error")
                 THEN result.parsing.error
                 ELSE FieldOr(result, "message", "Could not get the delta feed check results")
         IN IF HasObject(result, "parsing") /\ HasObject(result.parsing, "error_details")
              THEN Stay(st, Null,
                     DeltaPanel("PARSING_ERROR", message, result.parsing.error_details, form))
              ELSE Stay(st, message, NoDownload)
  ELSE [continue |-> TRUE]

\* the result passes the checks and reaches the sessionStorage writes
ReachesHandoff(outcome, form) ==
  /\ outcome.ok /\ outcome.value # NoResult
  /\ "continue" \in DOMAIN (IF form.feedType = "xml"
                               THEN XmlChecks(outcome.value, form, EmptyStorage)
                               ELSE DeltaChecks(outcome.value, form, EmptyStorage))

\* everything between `await <strategy>` and the finally block
AfterStrategy(outcome, form, st, q) ==
  IF ~outcome.ok THEN ShowError(st, outcome.message, outcome.downloadError)
  ELSE IF outcome.value = NoResult THEN ShowError(st, "TypeError: cannot read properties", NoDownload)
  ELSE LET result == outcome.value
           checks == IF form.feedType = "xml" THEN XmlChecks(result, form, st)
                     ELSE DeltaChecks(result, form, st)
           h == Handoff(result, form, st, q)
       IN IF "continue" \notin DOMAIN checks THEN checks
          ELSE IF h.thrown # Null
            THEN [ShowError(h.storage, h.thrown, NoDownload) EXCEPT !.writes = h.writes]
          ELSE [storage |-> h.storage, route |-> h.route, navState |-> h.navState,
                error |-> h.error, downloadError |-> NoDownload, writes |-> h.writes]

(***************************************************************************)
(* State.                                                                  *)
(***************************************************************************)
VARIABLES
  form,            \* the form values the running/last handleSubmit read
  isLoading, error, downloadError, uploadProgress, statusMessage,  \* useState of Home
  runs,            \* submissions that passed validation so far
  strategy,        \* the strategy function the last handleSubmit invoked
  promise,         \* the promise that strategy returned
  settleCalls,     \* resolve/reject calls made on that promise
  storage, route, navState,     \* sessionStorage, router location and its state
  writes,          \* the setItem calls the last submission made in its handoff
  xhr,             \* uploadWithProgress / checkFeed: the request and its progress baseline
  eventSource, received, calls, \* checkFeedWithProgress: connection, events, callbacks
  jobs,            \* the backend's job of each run
  pollTimer, ticks, requests, finalRequests, progressLog,  \* checkFeedWithPolling
  endpoint, response, apiOutcome, \* a single FeedCheckerAPI call
  resultsView      \* useState of Results: result and feedSource

homeVars == <<form, isLoading, error, downloadError, uploadProgress, statusMessage,
              runs, strategy, promise, settleCalls, storage, route, navState, writes>>
directVars == <<xhr>>
streamVars == <<eventSource, received, calls>>
pollVars == <<jobs, pollTimer, ticks, requests, finalRequests, progressLog>>
apiVars == <<endpoint, response, apiOutcome>>
resultsVars == <<resultsView>>
vars == <<homeVars, directVars, streamVars, pollVars, apiVars, resultsVars>>

MaxRuns == 1
\* the room sessionStorage has left when a handoff writes to it, in units of
\* QuotaUnit; -1 stands for a storage that refuses access
MaxQuotaSteps == 28
QuotaUnit == 1
Quotas == {-1} \cup {k * QuotaUnit : k \in 0..MaxQuotaSteps}

NoProgress == [none |-> TRUE]
NoForm == [none |-> TRUE]
NoXhr == [state |-> "none"]
NoJob == [status |-> "none"]
NoResponse == [none |-> TRUE]
NoOutcome == [none |-> TRUE]

Init ==
  /\ form = NoForm
  /\ isLoading = FALSE /\ error = Null /\ downloadError = NoDownload
  /\ uploadProgress = NoProgress /\ statusMessage = ""
  /\ runs = 0 /\ strategy = "none" /\ promise = [state |-> "none"] /\ settleCalls = 0
  /\ storage = EmptyStorage /\ route = "/" /\ navState = NoNavState /\ writes = <<>>
  /\ xhr = NoXhr
  /\ eventSource = "none" /\ received = <<>> /\ calls = <<>>
  /\ jobs = <<>> /\ pollTimer = FALSE /\ ticks = 0 /\ requests = {}
  /\ finalRequests = 0 /\ progressLog = <<>>
  /\ endpoint = "none" /\ response = NoResponse /\ apiOutcome = NoOutcome
  /\ resultsView = NoView

(***************************************************************************)
(* The strategy's promise.  resolve/reject settle a pending promise and    *)
(* are ignored by a settled one; handleSubmit resumes when it settles.     *)
(***************************************************************************)
\* variant: a later resolve/reject replaces the outcome
SettleOverwrite(p, o) == [state |-> "settled", outcome |-> o]

Settle(p, o) ==
  IF p.state = "pending" THEN [state |-> "settled", outcome |-> o] ELSE p

\* a handler that called no resolve/reject and left the status line and the
\* progress bar at msg and prog
Pending(msg, prog) ==
  /\ statusMessage' = msg /\ uploadProgress' = prog
  /\ UNCHANGED <<form, isLoading, error, downloadError, runs, strategy, promise,
                 settleCalls, storage, route, navState, writes>>

\* resolve(v) or reject(e) called with outcome o at the end of a handler
\* that left the status line and progress bar at msg and prog
SettleWith(o, msg, prog) ==
  /\ promise' = Settle(promise, o) /\ settleCalls' = settleCalls + 1
  /\ statusMessage' = msg /\ uploadProgress' = prog
  /\ UNCHANGED <<form, isLoading, error, downloadError, runs, strategy,
                 storage, route, navState, writes>>

\* handleSubmit is suspended in `await` on a promise that has just settled:
\* its continuation is the next thing the event loop runs
Resuming == isLoading /\ promise.state = "settled"

\* handleSubmit from the await to its end: the checks, the handoff, the
\* catch block and the finally block
Resume ==
  /\ Resuming
  /\ \E q \in (IF ReachesHandoff(promise.outcome, form) THEN Quotas ELSE {0}) :
       LET a == AfterStrategy(promise.outcome, form, storage, q) IN
         /\ error' = a.error /\ downloadError' = a.downloadError
         /\ storage' = a.storage /\ route' = a.route /\ navState' = a.navState
         /\ writes' = a.writes
  /\ isLoading' = FALSE /\ uploadProgress' = NoProgress /\ statusMessage' = ""
  /\ UNCHANGED <<form, runs, strategy, promise, settleCalls,
                 directVars, streamVars, pollVars, apiVars, resultsVars>>

(***************************************************************************)
(* The Results page: the effect that loads what it shows.                  *)
(***************************************************************************)
\* the effect with the sessionStorage lookup first, the navigation state
\* only when nothing is stored
ResultsEffectStorageFirst ==
  /\ ~Resuming /\ route = "/results" /\ resultsView = NoView
  /\ IF storage.feedCheckResult # NoItem
       THEN /\ resultsView' = [loaded |-> TRUE, result |-> storage.feedCheckResult,
                               feedSource |-> storage.feedSource]
            /\ UNCHANGED route
     ELSE IF navState # NoNavState
       THEN /\ resultsView' = [loaded |-> TRUE, result |-> navState.fullResult,
                               feedSource |-> navState.feedSource]
            /\ UNCHANGED route
     ELSE route' = "/" /\ UNCHANGED resultsView
  /\ UNCHANGED <<form, isLoading, error, downloadError, uploadProgress, statusMessage,
                 runs, strategy, promise, settleCalls, storage, navState, writes,
                 directVars, streamVars, pollVars, apiVars>>

\* useEffect of Results: location.state.fullResult when the navigation
\* carries it, else the item JSON.parse reads back from sessionStorage, else
\* back to the form
ResultsEffect ==
  /\ ~Resuming /\ route = "/results" /\ resultsView = NoView
  /\ IF navState # NoNavState
       THEN /\ resultsView' = [loaded |-> TRUE, result |-> navState.fullResult,
                               feedSource |-> navState.feedSource]
            /\ UNCHANGED route
     ELSE IF storage.feedCheckResult = NoItem
       THEN route' = "/" /\ UNCHANGED resultsView
     ELSE /\ resultsView' = [loaded |-> TRUE, result |-> storage.feedCheckResult,
                             feedSource |-> storage.feedSource]
          /\ UNCHANGED route
  /\ UNCHANGED <<form, isLoading, error, downloadError, uploadProgress, statusMessage,
                 runs, strategy, promise, settleCalls, storage, navState, writes,
                 directVars, streamVars, pollVars, apiVars>>

(***************************************************************************)
(* handleSubmit up to the call of the strategy.                            *)
(***************************************************************************)
\* variant: the submit control stays enabled while a check is loading
handleSubmitWhileLoading(f) ==
  /\ route = "/"
  /\ downloadError' = NoDownload
  /\ IF ValidationError(f) # Null
       THEN /\ error' = ValidationError(f)
            /\ UNCHANGED <<form, isLoading, uploadProgress, statusMessage, runs,
                           strategy, promise, settleCalls, xhr, eventSource, received, calls,
                           jobs, pollTimer, ticks, finalRequests, progressLog>>
       ELSE /\ error' = Null
            /\ form' = f /\ isLoading' = TRUE /\ uploadProgress' = NoProgress
            /\ runs' = runs + 1
            /\ strategy' = SelectStrategy(f)
            /\ promise' = [state |-> "pending"] /\ settleCalls' = 0
            /\ statusMessage' = IF shouldUseAsync(f) THEN "Creating the job..." ELSE ""
            /\ xhr' = IF SelectStrategy(f) \in {"uploadWithProgress", "checkFeed"}
                        THEN [state |-> "sent", startTime |-> 0, startLoaded |-> 0,
                                      event |-> [loaded |-> 0, timeStamp |-> 0]]
                                ELSE NoXhr
            /\ eventSource' = IF SelectStrategy(f) = "checkFeedWithProgress"
                                THEN "open" ELSE "none"
            /\ received' = <<>> /\ calls' = <<>>
            /\ jobs' = Append(jobs, IF SelectStrategy(f) = "checkFeedWithPolling"
                                      THEN [status |-> "creating"] ELSE NoJob)
            /\ pollTimer' = FALSE /\ ticks' = 0
            /\ finalRequests' = 0 /\ progressLog' = <<>>
  /\ writes' = <<>>
  /\ UNCHANGED <<storage, route, navState, requests, apiVars, resultsVars>>

handleSubmit(f) ==
  /\ route = "/" /\ ~isLoading
  /\ downloadError' = NoDownload
  /\ IF ValidationError(f) # Null
       THEN /\ error' = ValidationError(f)
            /\ UNCHANGED <<form, isLoading, uploadProgress, statusMessage, runs,
                           strategy, promise, settleCalls, xhr, eventSource, received, calls,
                           jobs, pollTimer, ticks, finalRequests, progressLog>>
       ELSE /\ error' = Null
            /\ form' = f /\ isLoading' = TRUE /\ uploadProgress' = NoProgress
            /\ runs' = runs + 1
            /\ strategy' = SelectStrategy(f)
            /\ promise' = [state |-> "pending"] /\ settleCalls' = 0
            /\ statusMessage' = IF shouldUseAsync(f) THEN "Creating the job..." ELSE ""
            /\ xhr' = IF SelectStrategy(f) \in {"uploadWithProgress", "checkFeed"}
                        THEN [state |-> "sent", startTime |-> 0, startLoaded |-> 0,
                                      event |-> [loaded |-> 0, timeStamp |-> 0]]
                                ELSE NoXhr
            /\ eventSource' = IF SelectStrategy(f) = "checkFeedWithProgress"
                                THEN "open" ELSE "none"
            /\ received' = <<>> /\ calls' = <<>>
            /\ jobs' = Append(jobs, IF SelectStrategy(f) = "checkFeedWithPolling"
                                      THEN [status |-> "creating"] ELSE NoJob)
            /\ pollTimer' = FALSE /\ ticks' = 0
            /\ finalRequests' = 0 /\ progressLog' = <<>>
  /\ writes' = <<>>
  /\ UNCHANGED <<storage, route, navState, requests, apiVars, resultsVars>>

(***************************************************************************)
(* Direct Submit: checkFeed (URL, delta feed) and uploadWithProgress       *)
(* (file): one request, one response.                                      *)
(***************************************************************************)
Html502 == [status |-> 502, json |-> FALSE, body |-> [text |-> DoctypeUpperText, data |-> NoJson]]
OkJson(d) == [status |-> 200, json |-> TRUE, body |-> JsonBody(d)]
ErrorJson(status, d) == [status |-> status, json |-> TRUE, body |-> JsonBody(d)]

\* the responses /api/check-feed gives to a check
CheckFeedResponses ==
  {NetworkFailure, Html502,
   [status |-> 502, json |-> FALSE, body |-> PlainBody],
   [status |-> 500, json |-> TRUE, body |-> PlainBody],
   ErrorJson(400, [detail |-> [str |-> "site_id is required"]]),
   ErrorJson(400, [detail |-> DownloadFailure("DOWNLOAD_ERROR")]),
   ErrorJson(400, [detail |-> [error_code |-> "DNS_ERROR", message |-> "host not found"]]),
   ErrorJson(400, [detail |-> [message |-> "bad request"]]),
   ErrorJson(500, [error |-> "internal"])}
  \cup {OkJson(res) : res \in Results}

\* the load listener of uploadWithProgress
UploadLoad(r) ==
  IF IsOk(r) THEN
    IF Parses(r.body) THEN Resolve(r.body.data) ELSE Reject("Error parsing the server response")
  ELSE IF ~Parses(r.body) THEN Reject(MsgStatus(r))
  ELSE IF "detail" \notin DOMAIN r.body.data THEN Reject(MsgCheckFailed)
  ELSE LET detail == r.body.data.detail IN
    IF IsString(detail) THEN Reject(detail.str)
    ELSE IF FieldOr(detail, "error_type", "") = "DOWNLOAD_ERROR"
      THEN RejectDownload(FieldOr(detail, "message", ""), detail)
      ELSE Reject(FieldOr(detail, "message", MsgObjectObject))

\* the error listener of uploadWithProgress
UploadError == Reject("Network error while uploading the file")

\* checkFeed's response arrives
CheckFeedSettles(r) ==
  /\ ~Resuming /\ strategy = "checkFeed" /\ xhr.state = "sent"
  /\ xhr' = [state |-> "done", response |-> r]
  /\ SettleWith(checkFeed(r), statusMessage, uploadProgress)
  /\ UNCHANGED <<streamVars, pollVars, apiVars, resultsVars>>

\* xhr fires load (a response) or error (no response)
UploadSettles(r) ==
  /\ ~Resuming /\ strategy = "uploadWithProgress" /\ xhr.state = "sent"
  /\ xhr' = [state |-> "done", response |-> r]
  /\ SettleWith(IF IsNetworkFailure(r) THEN UploadError ELSE UploadLoad(r),
                     statusMessage, NoProgress)
  /\ UNCHANGED <<streamVars, pollVars, apiVars, resultsVars>>

\* a number as JavaScript computes it from a division: num / den, exact and
\* in lowest terms; den = 0 is a non-finite value (Infinity)
RECURSIVE GCD(_, _)
GCD(a, b) == IF b = 0 THEN a ELSE GCD(b, a % b)

Ratio(num, den) ==
  LET g == GCD(num, den) IN
    IF g = 0 THEN [num |-> num, den |-> den] ELSE [num |-> num \div g, den |-> den \div g]
IsFinite(x) == x.den # 0

\* Math.round(num / den) for num >= 0, den > 0
Round(num, den) == (2 * num + den) \div (2 * den)

\* formatTime: the text of the time remaining on the progress card
formatTime(seconds) ==
  IF ~IsFinite(seconds) \/ seconds.num < 0 THEN [text |-> "unknown"]
  ELSE IF seconds.num < 60 * seconds.den
    THEN [text |-> "s", s |-> Round(seconds.num, seconds.den)]
  ELSE LET minutes == seconds.num \div (60 * seconds.den) IN
    [text |-> "m s", m |-> minutes,
     s |-> Round(seconds.num - 60 * minutes * seconds.den, seconds.den)]

\* the latest time on the clock (Date.now(), in seconds since send) at which
\* an upload progress event is delivered
MaxUploadClock == 3

\* variant: the baseline stays at the start of the upload (an average speed
\* since send)
OnUploadProgressFromStart(x, loaded, total, currentTime) ==
  LET timeElapsed == currentTime - x.startTime
      bytesUploaded == loaded - x.startLoaded
      speed == IF timeElapsed > 0 THEN Ratio(bytesUploaded, timeElapsed) ELSE Ratio(0, 1)
      remainingBytes == total - loaded
      timeRemaining == IF speed.num > 0 THEN Ratio(remainingBytes * speed.den, speed.num)
                       ELSE Ratio(0, 1)
  IN [progress |-> [loaded |-> loaded, total |-> total,
                    percentage |-> Round(100 * Ratio(loaded, total).num,
                                         Ratio(loaded, total).den),
                    speed |-> speed, timeRemaining |-> timeRemaining],
      xhr |-> x]

\* the progress listener of uploadWithProgress for an event with
\* lengthComputable (an upload of form data always has it): what it passes
\* to setUploadProgress and the baseline it leaves
OnUploadProgress(x, loaded, total, currentTime) ==
  LET timeElapsed == currentTime - x.startTime
      bytesUploaded == loaded - x.startLoaded
      speed == IF timeElapsed > 0 THEN Ratio(bytesUploaded, timeElapsed) ELSE Ratio(0, 1)
      remainingBytes == total - loaded
      timeRemaining == IF speed.num > 0 THEN Ratio(remainingBytes * speed.den, speed.num)
                       ELSE Ratio(0, 1)
  IN [progress |-> [loaded |-> loaded, total |-> total,
                    percentage |-> Round(100 * Ratio(loaded, total).num,
                                         Ratio(loaded, total).den),
                    speed |-> speed, timeRemaining |-> timeRemaining],
      xhr |-> [x EXCEPT !.startTime = currentTime, !.startLoaded = loaded]]

\* e.loaded of a progress event: bytes sent so far, never less than before
UploadLoaded(total, sofar) == {n \in {0, total \div 4, total \div 2, total} : n >= sofar}

\* xhr.upload fires progress, elapsed seconds after the previous event (after
\* send for the first one); xhr.event is the last event fired
UploadProgressEvent(loaded, elapsed) ==
  /\ ~Resuming /\ strategy = "uploadWithProgress" /\ xhr.state = "sent"
  /\ xhr.event.timeStamp + elapsed <= MaxUploadClock
  /\ LET currentTime == xhr.event.timeStamp + elapsed
         on == OnUploadProgress(xhr, loaded, form.feedFile.size, currentTime)
     IN /\ xhr' = [on.xhr EXCEPT !.event = [loaded |-> loaded, timeStamp |-> currentTime]]
        /\ uploadProgress' = on.progress
  /\ UNCHANGED <<form, isLoading, error, downloadError, statusMessage, runs, strategy,
                 promise, settleCalls, storage, route, navState, writes,
                 streamVars, pollVars, apiVars, resultsVars>>

(***************************************************************************)
(* Progress-Stream: checkFeedWithProgress over an EventSource.             *)
(***************************************************************************)
MaxEvents == 3
MaxElapsed == 2

\* event.data of the messages the stream delivers; NoJson is a message whose
\* data JSON.parse rejects
StreamEvents ==
  {NoJson,
   [type |-> "start", message |-> "Starting"],
   [type |-> "start"],
   [type |-> "downloading", message |-> "Downloading"],
   [type |-> "progress", loaded |-> 500, total |-> 1000, percentage |-> 50],
   [type |-> "progress", loaded |-> 1000, total |-> 1000, percentage |-> 100],
   [type |-> "processing"],
   [type |-> "complete", result |-> XmlOk],
   [type |-> "complete", result |-> XmlSyntaxCritical],
   [type |-> "complete"],
   [type |-> "error"] @@ DownloadFailure("download_error"),
   [type |-> "error", error_type |-> "download_error", error_code |-> "DNS_ERROR"],
   [type |-> "error", error_type |-> "parse_error", message |-> "broken xml"],
   [type |-> "error"],
   [type |-> "ping"]}

MsgStarting == "Starting the download..."
MsgDownloading == "Downloading the feed..."
MsgProcessing == "Processing the data..."
\* obj.field, undefined (the empty string here) when absent
FieldOrUndefined(o, f) == IF f \in DOMAIN o THEN o[f] ELSE ""

\* variant: the HTTP status of the event is not copied
StreamDownloadErrorNoStatus(data) ==
  [error_type |-> "DOWNLOAD_ERROR",
   error_code |-> FieldOrUndefined(data, "error_code"),
   message |-> FieldOrUndefined(data, "message"),
   url |-> FieldOrUndefined(data, "url"),
   http_status |-> 0,
   details |-> IF "details" \in DOMAIN data THEN data.details ELSE NoDownload]

\* the downloadError object built from an error event
StreamDownloadError(data) ==
  [error_type |-> "DOWNLOAD_ERROR",
   error_code |-> FieldOrUndefined(data, "error_code"),
   message |-> FieldOrUndefined(data, "message"),
   url |-> FieldOrUndefined(data, "url"),
   http_status |-> IF "http_status" \in DOMAIN data THEN data.http_status ELSE 0,
   details |-> IF "details" \in DOMAIN data THEN data.details ELSE NoDownload]

StatusCall(message) == [fn |-> "onStatusChange", status |-> message]
\* variant: loaded and total change places
ProgressCallSwapped(data) ==
  [fn |-> "onProgress", loaded |-> data.total, total |-> data.loaded,
   percentage |-> data.percentage]

ProgressCall(data) ==
  [fn |-> "onProgress", loaded |-> data.loaded, total |-> data.total,
   percentage |-> data.percentage]

\* onmessage without eventSource.close() in the error case
OnMessageErrorKeepsOpen(data) ==
  IF data = NoJson
    THEN [calls |-> <<>>, close |-> TRUE, settle |-> Reject("Error while handling the server response")]
  ELSE IF data.type = "start"
    THEN [calls |-> <<StatusCall(FieldOr(data, "message", MsgStarting))>>,
          close |-> FALSE, settle |-> NoOutcome]
  ELSE IF data.type = "downloading"
    THEN [calls |-> <<StatusCall(FieldOr(data, "message", MsgDownloading))>>,
          close |-> FALSE, settle |-> NoOutcome]
  ELSE IF data.type = "progress"
    THEN [calls |-> <<ProgressCall(data)>>, close |-> FALSE, settle |-> NoOutcome]
  ELSE IF data.type = "processing"
    THEN [calls |-> <<StatusCall(FieldOr(data, "message", MsgProcessing))>>,
          close |-> FALSE, settle |-> NoOutcome]
  ELSE IF data.type = "complete"
    THEN [calls |-> <<>>, close |-> TRUE,
          settle |-> Resolve(IF "result" \in DOMAIN data THEN data.result ELSE NoResult)]
  ELSE IF data.type = "error"
    THEN [calls |-> <<>>, close |-> FALSE,
          settle |-> IF FieldOr(data, "error_type", "") = "download_error"
                       THEN RejectDownload(FieldOrUndefined(data, "message"),
                                           StreamDownloadError(data))
                       ELSE Reject(FieldOr(data, "message", MsgCheckFailed))]
  ELSE [calls |-> <<>>, close |-> FALSE, settle |-> NoOutcome]

\* variant: a message whose data is not JSON is skipped
OnMessageBadJsonSkipped(data) ==
  IF data = NoJson
    THEN [calls |-> <<>>, close |-> FALSE, settle |-> NoOutcome]
  ELSE IF data.type = "start"
    THEN [calls |-> <<StatusCall(FieldOr(data, "message", MsgStarting))>>,
          close |-> FALSE, settle |-> NoOutcome]
  ELSE IF data.type = "downloading"
    THEN [calls |-> <<StatusCall(FieldOr(data, "message", MsgDownloading))>>,
          close |-> FALSE, settle |-> NoOutcome]
  ELSE IF data.type = "progress"
    THEN [calls |-> <<ProgressCall(data)>>, close |-> FALSE, settle |-> NoOutcome]
  ELSE IF data.type = "processing"
    THEN [calls |-> <<StatusCall(FieldOr(data, "message", MsgProcessing))>>,
          close |-> FALSE, settle |-> NoOutcome]
  ELSE IF data.type = "complete"
    THEN [calls |-> <<>>, close |-> TRUE,
          settle |-> Resolve(IF "result" \in DOMAIN data THEN data.result ELSE NoResult)]
  ELSE IF data.type = "error"
    THEN [calls |-> <<>>, close |-> TRUE,
          settle |-> IF FieldOr(data, "error_type", "") = "download_error"
                       THEN RejectDownload(FieldOrUndefined(data, "message"),
                                           StreamDownloadError(data))
                       ELSE Reject(FieldOr(data, "message", MsgCheckFailed))]
  ELSE [calls |-> <<>>, close |-> FALSE, settle |-> NoOutcome]

\* eventSource.onmessage: the callbacks it invokes, whether it closes the
\* connection, and the resolve/reject it calls (NoOutcome: none)
OnMessage(data) ==
  IF data = NoJson
    THEN [calls |-> <<>>, close |-> TRUE, settle |-> Reject("Error while handling the server response")]
  ELSE IF data.type = "start"
    THEN [calls |-> <<StatusCall(FieldOr(data, "message", MsgStarting))>>,
          close |-> FALSE, settle |-> NoOutcome]
  ELSE IF data.type = "downloading"
    THEN [calls |-> <<StatusCall(FieldOr(data, "message", MsgDownloading))>>,
          close |-> FALSE, settle |-> NoOutcome]
  ELSE IF data.type = "progress"
    THEN [calls |-> <<ProgressCall(data)>>, close |-> FALSE, settle |-> NoOutcome]
  ELSE IF data.type = "processing"
    THEN [calls |-> <<StatusCall(FieldOr(data, "message", MsgProcessing))>>,
          close |-> FALSE, settle |-> NoOutcome]
  ELSE IF data.type = "complete"
    THEN [calls |-> <<>>, close |-> TRUE,
          settle |-> Resolve(IF "result" \in DOMAIN data THEN data.result ELSE NoResult)]
  ELSE IF data.type = "error"
    THEN [calls |-> <<>>, close |-> TRUE,
          settle |-> IF FieldOr(data, "error_type", "") = "download_error"
                       THEN RejectDownload(FieldOrUndefined(data, "message"),
                                           StreamDownloadError(data))
                       ELSE Reject(FieldOr(data, "message", MsgCheckFailed))]
  ELSE [calls |-> <<>>, close |-> FALSE, settle |-> NoOutcome]

\* the progress callback handleSubmit passes: speed and time remaining after
\* `elapsed` seconds since the submission (whole units)
StreamProgress(call, elapsed) ==
  LET speed == IF elapsed > 0 THEN call.loaded \div elapsed ELSE 0
  IN [loaded |-> call.loaded, total |-> call.total, percentage |-> call.percentage,
      speed |-> speed,
      timeRemaining |-> IF speed > 0 THEN (call.total - call.loaded) \div speed ELSE 0]

\* the time Date.now() can show when the progress callback runs
ElapsedFor(data) ==
  IF data # NoJson /\ data.type = "progress" THEN 0..MaxElapsed ELSE {0}

\* a message event is dispatched (only while the connection is not closed)
StreamMessage(data, elapsed) ==
  /\ ~Resuming /\ strategy = "checkFeedWithProgress" /\ eventSource = "open"
  /\ Len(received) < MaxEvents
  /\ received' = Append(received, data)
  /\ LET h == OnMessage(data)
         msg == IF h.calls # <<>> /\ h.calls[1].fn = "onStatusChange"
                  THEN h.calls[1].status ELSE statusMessage
         prog == IF h.calls # <<>> /\ h.calls[1].fn = "onProgress"
                   THEN StreamProgress(h.calls[1], elapsed) ELSE uploadProgress
     IN /\ calls' = calls \o h.calls
        /\ eventSource' = IF h.close THEN "closed" ELSE eventSource
        /\ IF h.settle = NoOutcome THEN Pending(msg, prog)
           ELSE SettleWith(h.settle, msg, prog)
  /\ UNCHANGED <<directVars, pollVars, apiVars, resultsVars>>

\* eventSource.onmessage with a callback that throws: the catch of the try
\* around the handler closes the connection and rejects
StreamCallbackThrows(data) ==
  /\ ~Resuming /\ strategy = "checkFeedWithProgress" /\ eventSource = "open"
  /\ Len(received) < MaxEvents /\ OnMessage(data).calls # <<>>
  /\ received' = Append(received, data)
  /\ calls' = Append(calls, [fn |-> OnMessage(data).calls[1].fn, threw |-> TRUE])
  /\ eventSource' = "closed"
  /\ SettleWith(Reject("Error while handling the server response"),
                statusMessage, uploadProgress)
  /\ UNCHANGED <<directVars, pollVars, apiVars, resultsVars>>

\* onerror without eventSource.close(): the browser's EventSource keeps the
\* connection and reconnects by itself
StreamErrorKeepsOpen ==
  /\ ~Resuming /\ strategy = "checkFeedWithProgress" /\ eventSource = "open"
  /\ eventSource' = "open"
  /\ SettleWith(Reject("Error connecting to the server"), statusMessage, uploadProgress)
  /\ UNCHANGED <<received, calls, directVars, pollVars, apiVars, resultsVars>>

\* eventSource.onerror: the connection failed
StreamError ==
  /\ ~Resuming /\ strategy = "checkFeedWithProgress" /\ eventSource = "open"
  /\ eventSource' = "closed"
  /\ SettleWith(Reject("Error connecting to the server"), statusMessage, uploadProgress)
  /\ UNCHANGED <<received, calls, directVars, pollVars, apiVars, resultsVars>>

(***************************************************************************)
(* Async Job Poller: checkFeedWithPolling.  The job is created, then a     *)
(* setInterval timer fires an async callback every pollInterval; a         *)
(* callback does not wait for the previous one, so status requests of      *)
(* several ticks can be in flight together and their responses may arrive  *)
(* in any order.                                                           *)
(***************************************************************************)
MaxTicks == 3

Percentages == {0, 50, 100}

MsgResultNotFound == "Result not found"
\* status.error of a failed job: absent, a string, or an object
NoError == [none |-> TRUE]
JobErrors ==
  {NoError, [str |-> "worker crashed"],
   DownloadFailure("download_error"), DownloadFailure("DOWNLOAD_ERROR"),
   [error_code |-> "DNS_ERROR", message |-> "host not found"],
   [code |-> "E42"]}

\* the backend's record of a job
Job(status, progress, err) == [status |-> status, progress |-> progress, error |-> err]

\* the steps the backend takes on a job that is not terminal; its progress
\* never goes down
NextJobs(job) ==
  IF job.status = "pending" THEN {Job("processing", 0, NoError)}
  ELSE {Job("processing", p, NoError) : p \in {q \in Percentages : q > job.progress}}
       \cup {Job(s, 100, NoError) : s \in {"completed", "completed_with_errors"}}
       \cup {Job("failed", job.progress, e) : e \in JobErrors}

\* the JobStatusResponse body GET /api/job/{id} returns for a job
StatusBody(job) ==
  IF job.error = NoError
    THEN [status |-> job.status, progress |-> job.progress, message |-> job.status]
    ELSE [status |-> job.status, progress |-> job.progress, message |-> job.status,
          error |-> job.error]

\* what GET /api/job/{id} can answer while the job is as given
StatusResponses(job) ==
  {OkJson(StatusBody(job)), NetworkFailure, Html502,
   ErrorJson(404, [detail |-> [str |-> "Job not found"]])}

\* what POST /api/check-feed-async can answer
AsyncResponses ==
  {OkJson([job_id |-> "job-1", status |-> "pending", message |-> "Job created"]),
   NetworkFailure, Html502, ErrorJson(500, [detail |-> [str |-> "queue is full"]])}

\* what GET /api/job/{id}?include_result=true can answer for a finished job
FinalResponses ==
  {OkJson([status |-> "completed", result |-> XmlOk]),
   OkJson([status |-> "completed", result |-> DeltaOk]),
   OkJson([status |-> "completed"]),
   [status |-> 200, json |-> FALSE, body |-> JsonBody([result |-> XmlOk])],
   [status |-> 200, json |-> TRUE, body |-> PlainBody],
   [status |-> 502, json |-> FALSE, body |-> PlainBody],
   ErrorJson(500, [detail |-> [str |-> "internal"]]),
   NetworkFailure, Html502}

\* the onProgress callback handleSubmit passes to checkFeedWithPolling
PollProgress(progress) ==
  [loaded |-> progress, total |-> 100, percentage |-> progress,
   speed |-> 0, timeRemaining |-> 0]

ProgressMessage(progress, message) == [progress |-> progress, message |-> message]

\* the rejection for a status of "failed"
JobFailure(status) ==
  IF "error" \in DOMAIN status /\ ~IsString(status.error) THEN
    IF FieldOr(status.error, "error_type", "") = "download_error"
      THEN RejectDownload(FieldOrUndefined(status.error, "message"), status.error)
      ELSE Reject(FieldOr(status.error, "message", "{\"code\":\"E42\"}"))
  ELSE Reject(IF "error" \in DOMAIN status /\ status.error.str # ""
                THEN status.error.str ELSE "Error while processing the feed")

\* the interval callback with a cap: it gives up on a job still processing
OnPollStatusGivesUp(o) ==
  IF ~o.ok
    THEN [calls |-> <<>>, clear |-> TRUE, final |-> FALSE, settle |-> o]
  ELSE LET status == o.value
           first == ProgressMessage(status.progress, status.message) IN
    IF status.status \in {"completed", "completed_with_errors"}
      THEN [calls |-> <<first, ProgressMessage(100, "Fetching the result...")>>,
            clear |-> TRUE, final |-> TRUE, settle |-> NoOutcome]
    ELSE IF status.status = "failed"
      THEN [calls |-> <<first>>, clear |-> TRUE, final |-> FALSE,
            settle |-> JobFailure(status)]
    ELSE IF status.status = "processing"
      THEN [calls |-> <<first>>, clear |-> TRUE, final |-> FALSE,
            settle |-> Reject("Timed out")]
    ELSE [calls |-> <<first>>, clear |-> FALSE, final |-> FALSE, settle |-> NoOutcome]

\* the interval callback without the clearInterval of the failed branch
OnPollStatusKeepsTimer(o) ==
  IF ~o.ok
    THEN [calls |-> <<>>, clear |-> TRUE, final |-> FALSE, settle |-> o]
  ELSE LET status == o.value
           first == ProgressMessage(status.progress, status.message) IN
    IF status.status \in {"completed", "completed_with_errors"}
      THEN [calls |-> <<first, ProgressMessage(100, "Fetching the result...")>>,
            clear |-> TRUE, final |-> TRUE, settle |-> NoOutcome]
    ELSE IF status.status = "failed"
      THEN [calls |-> <<first>>, clear |-> FALSE, final |-> FALSE,
            settle |-> JobFailure(status)]
    ELSE [calls |-> <<first>>, clear |-> FALSE, final |-> FALSE, settle |-> NoOutcome]

\* the interval callback once getJobStatus has settled with outcome o: the
\* onProgress calls it makes, whether it clears the timer, whether it sends
\* the include_result request, and the reject it calls (NoOutcome: none)
OnPollStatus(o) ==
  IF ~o.ok
    THEN [calls |-> <<>>, clear |-> TRUE, final |-> FALSE, settle |-> o]
  ELSE LET status == o.value
           first == ProgressMessage(status.progress, status.message) IN
    IF status.status \in {"completed", "completed_with_errors"}
      THEN [calls |-> <<first, ProgressMessage(100, "Fetching the result...")>>,
            clear |-> TRUE, final |-> TRUE, settle |-> NoOutcome]
    ELSE IF status.status = "failed"
      THEN [calls |-> <<first>>, clear |-> TRUE, final |-> FALSE,
            settle |-> JobFailure(status)]
    ELSE [calls |-> <<first>>, clear |-> FALSE, final |-> FALSE, settle |-> NoOutcome]

\* the include_result fetch: what the callback makes of its response
FinalFetch(r) ==
  IF IsNetworkFailure(r) THEN Reject("Could not connect to the server while fetching the result")
  ELSE IF ~r.json THEN
    IF LooksLikeHtml(r.body.text) THEN Reject(MsgBadGateway)
    ELSE IF Parses(r.body) THEN
      IF "result" \in DOMAIN r.body.data THEN Resolve(r.body.data.result)
      ELSE Reject(MsgResultNotFound)
    ELSE Reject(MsgUnexpectedFormat)
  ELSE IF ~IsOk(r) THEN Reject("Could not fetch the result")
  ELSE IF ~Parses(r.body) THEN Reject(MsgSyntaxError)
  ELSE IF "result" \in DOMAIN r.body.data THEN Resolve(r.body.data.result)
  ELSE Reject(MsgResultNotFound)

StatusRequest(run, id) == [run |-> run, id |-> id, kind |-> "status", response |-> NoResponse]
FinalRequest(run, id) == [run |-> run, id |-> id, kind |-> "final", response |-> NoResponse]

\* checkFeedAsync's response arrives: onProgress(0, message) and the timer
\* starts, or the strategy's promise rejects
JobCreated(r) ==
  /\ ~Resuming /\ strategy = "checkFeedWithPolling" /\ jobs[runs].status = "creating"
  /\ LET o == checkFeedAsync(r) IN
       IF o.ok
         THEN /\ jobs' = [jobs EXCEPT ![runs] = Job("pending", 0, NoError)]
              /\ pollTimer' = TRUE /\ progressLog' = <<0>>
              /\ Pending(o.value.message, PollProgress(0))
         ELSE /\ jobs' = [jobs EXCEPT ![runs] = NoJob]
              /\ UNCHANGED <<pollTimer, progressLog>>
              /\ SettleWith(o, statusMessage, uploadProgress)
  /\ UNCHANGED <<ticks, requests, finalRequests, directVars, streamVars, apiVars, resultsVars>>

\* the backend works on the job
ServerStep(j) ==
  /\ ~Resuming /\ strategy = "checkFeedWithPolling"
  /\ jobs[runs].status \in {"pending", "processing"}
  /\ j \in NextJobs(jobs[runs])
  /\ jobs' = [jobs EXCEPT ![runs] = j]
  /\ UNCHANGED <<homeVars, pollTimer, ticks, requests, finalRequests, progressLog,
                 directVars, streamVars, apiVars, resultsVars>>

\* the interval fires: the callback starts and sends its status request
PollTick ==
  /\ ~Resuming /\ pollTimer /\ ticks < MaxTicks
  /\ ticks' = ticks + 1
  /\ requests' = requests \cup {StatusRequest(runs, ticks + 1)}
  /\ UNCHANGED <<homeVars, jobs, pollTimer, finalRequests, progressLog,
                 directVars, streamVars, apiVars, resultsVars>>

\* the backend, or the gateway in front of it, answers a request
Serve(req, r) ==
  /\ ~Resuming /\ req \in requests /\ req.response = NoResponse
  /\ r \in IF req.kind = "status" THEN StatusResponses(jobs[req.run]) ELSE FinalResponses
  /\ requests' = (requests \ {req}) \cup {[req EXCEPT !.response = r]}
  /\ UNCHANGED <<homeVars, jobs, pollTimer, ticks, finalRequests, progressLog,
                 directVars, streamVars, apiVars, resultsVars>>

\* a status response reaches its callback, which runs up to the fetch of the
\* result (completed) or to its end
PollStatusResponse(req) ==
  /\ ~Resuming /\ req \in requests /\ req.kind = "status" /\ req.response # NoResponse
  /\ LET h == OnPollStatus(getJobStatus(req.response))
         current == req.run = runs
         msg == IF h.calls = <<>> THEN statusMessage ELSE h.calls[Len(h.calls)].message
         prog == IF h.calls = <<>> THEN uploadProgress
                 ELSE PollProgress(h.calls[Len(h.calls)].progress)
     IN /\ requests' = (requests \ {req})
                         \cup (IF h.final THEN {FinalRequest(req.run, req.id)} ELSE {})
        /\ finalRequests' = IF h.final /\ current THEN finalRequests + 1 ELSE finalRequests
        /\ pollTimer' = IF h.clear /\ current THEN FALSE ELSE pollTimer
        /\ progressLog' = IF current
                            THEN progressLog \o [i \in 1..Len(h.calls) |-> h.calls[i].progress]
                            ELSE progressLog
        /\ IF h.settle = NoOutcome \/ ~current THEN Pending(msg, prog)
           ELSE SettleWith(h.settle, msg, prog)
  /\ UNCHANGED <<jobs, ticks, directVars, streamVars, apiVars, resultsVars>>

\* the include_result response reaches the callback that asked for it
PollFinalResponse(req) ==
  /\ ~Resuming /\ req \in requests /\ req.kind = "final" /\ req.response # NoResponse
  /\ requests' = requests \ {req}
  /\ IF req.run = runs
       THEN SettleWith(FinalFetch(req.response), statusMessage, uploadProgress)
     ELSE Pending(statusMessage, uploadProgress)
  /\ UNCHANGED <<jobs, pollTimer, ticks, finalRequests, progressLog,
                 directVars, streamVars, apiVars, resultsVars>>

(***************************************************************************)
(* Specifications.                                                         *)
(***************************************************************************)
\* one valid submission for each branch of the mode selector
Submission(sourceType, file, feedType, async) ==
  [siteId |-> "12345", sourceType |-> sourceType,
   feedUrl |-> IF sourceType = "url" THEN FeedUrl ELSE "",
   feedFile |-> file, feedType |-> feedType, useAsyncMode |-> async]

Submissions ==
  {Submission("url", NoFile, "xml", FALSE),
   Submission("url", NoFile, "delta", FALSE),
   Submission("file", File(1024), "xml", FALSE),
   Submission("file", File(AsyncThreshold + 1), "xml", FALSE),
   Submission("url", NoFile, "delta", TRUE)}

DirectNext ==
  \/ \E r \in CheckFeedResponses : CheckFeedSettles(r)
  \/ \E r \in CheckFeedResponses : UploadSettles(r)
  \/ /\ strategy = "uploadWithProgress" /\ xhr.state = "sent"
     /\ \E elapsed \in 0..MaxElapsed :
          \E loaded \in UploadLoaded(form.feedFile.size, xhr.event.loaded) :
            UploadProgressEvent(loaded, elapsed)

StreamNext ==
  \/ \E d \in StreamEvents : \E e \in ElapsedFor(d) : StreamMessage(d, e)
  \/ StreamError

PollNext ==
  \/ \E r \in AsyncResponses : JobCreated(r)
  \/ \E j \in UNION {NextJobs(Job(s, p, NoError)) :
                       s \in {"pending", "processing"}, p \in Percentages} : ServerStep(j)
  \/ PollTick
  \/ \E req \in requests :
       \E r \in StatusResponses(jobs[req.run]) \cup FinalResponses : Serve(req, r)
  \/ \E req \in requests : PollStatusResponse(req)
  \/ \E req \in requests : PollFinalResponse(req)

\* the renderer: a submission of each kind and the three strategies
Next ==
  \/ runs < MaxRuns /\ \E f \in Submissions : handleSubmit(f)
  \/ DirectNext
  \/ StreamNext
  \/ PollNext
  \/ Resume
  \/ ResultsEffect

Spec == Init /\ [][Next]_vars

\* a button of the Results page leads back to the form: Results unmounts and
\* a new Home view mounts with its initial state; sessionStorage stays
BackToHome ==
  /\ ~Resuming /\ route = "/results" /\ resultsView # NoView
  /\ route' = "/" /\ navState' = NoNavState /\ resultsView' = NoView
  /\ isLoading' = FALSE /\ error' = Null /\ downloadError' = NoDownload
  /\ uploadProgress' = NoProgress /\ statusMessage' = ""
  /\ UNCHANGED <<form, runs, strategy, promise, settleCalls, storage, writes,
                 directVars, streamVars, pollVars, apiVars>>

\* the checks one session of the application runs, one after the other
MaxChecks == 2

\* the forms of a session: those a validation stops and those Direct Submit
\* takes
SessionForms ==
  {f \in Forms : \/ ValidationError(f) # Null
                 \/ SelectStrategy(f) \in {"checkFeed", "uploadWithProgress"}}

\* a session: check after check over Direct Submit, with the way to the
\* results and back
NextSession ==
  \/ runs < MaxChecks /\ \E f \in SessionForms : handleSubmit(f)
  \/ DirectNext
  \/ Resume
  \/ ResultsEffect
  \/ BackToHome

SpecSession == Init /\ [][NextSession]_vars

\* the form in every state a submission can find it, over Direct Submit
NextForms ==
  \/ runs < MaxRuns /\ \E f \in Forms : handleSubmit(f)
  \/ DirectNext
  \/ Resume
  \/ ResultsEffect

SpecForms == Init /\ [][NextForms]_vars

\* the Progress-Stream strategy alone
NextStream ==
  \/ /\ runs < MaxRuns
     /\ \E f \in {g \in Submissions : SelectStrategy(g) = "checkFeedWithProgress"} :
          handleSubmit(f)
  \/ StreamNext
  \/ Resume

SpecStream == Init /\ [][NextStream]_vars

\* checkFeedWithProgress with callbacks that may throw
NextStreamThrows ==
  \/ NextStream
  \/ \E d \in StreamEvents \ {NoJson} : StreamCallbackThrows(d)

SpecStreamThrows == Init /\ [][NextStreamThrows]_vars

\* the Async Job Poller alone, with its scheduling: the interval keeps
\* firing while it is set, the backend answers every request, and every
\* response reaches the callback that awaits it
NextPoll ==
  \/ runs < MaxRuns /\ \E f \in {g \in Submissions : g.useAsyncMode} : handleSubmit(f)
  \/ PollNext
  \/ Resume

PollFairness ==
  /\ WF_vars(PollTick)
  /\ WF_vars(\E req \in requests :
               \E r \in StatusResponses(jobs[req.run]) \cup FinalResponses : Serve(req, r))
  /\ WF_vars(\E req \in requests : PollStatusResponse(req))
  /\ WF_vars(\E req \in requests : PollFinalResponse(req))

SpecPoll == Init /\ [][NextPoll]_vars /\ PollFairness

(***************************************************************************)
(* A single call of a FeedCheckerAPI method, whatever the backend or the   *)
(* gateway in front of it answers.                                         *)
(***************************************************************************)
Statuses == {200, 404, 500, 502}

\* responses without a JSON content-type: gateway pages, plain text, and
\* JSON text sent with another content-type
TextResponses ==
  {[status |-> s, json |-> FALSE, body |-> b] :
     s \in Statuses,
     b \in HtmlBodies \cup {PlainBody, JsonBody([site_id |-> SiteIdNumber]),
                            JsonBody([result |-> [site_id |-> SiteIdNumber]])}}

\* responses with a JSON content-type
JsonResponses ==
  {[status |-> s, json |-> TRUE, body |-> b] :
     s \in Statuses,
     b \in {JsonBody([detail |-> [str |-> "failed"]]), JsonBody([site_id |-> SiteIdNumber]),
            PlainBody}}

ApiResponses == TextResponses \cup JsonResponses \cup {NetworkFailure}

Endpoints ==
  {"check-feed", "check-feed-async", "job-status", "job-delete", "check-syntax",
   "get-problematic-offers", "export-excel", "job-result"}

\* the method behind each endpoint
Classify(e, r) ==
  CASE e = "check-feed" -> checkFeed(r)
    [] e = "check-feed-async" -> checkFeedAsync(r)
    [] e = "job-status" -> getJobStatus(r)
    [] e = "job-delete" -> deleteJob(r)
    [] e = "check-syntax" -> checkSyntax(r)
    [] e = "get-problematic-offers" -> getProblematicOffers(r)
    [] e = "export-excel" -> exportToExcel(r)
    [] e = "job-result" -> FinalFetch(r)

\* a method is called and the response r comes back
ApiCall(e, r) ==
  /\ endpoint' = e /\ response' = r /\ apiOutcome' = Classify(e, r)
  /\ UNCHANGED <<homeVars, directVars, streamVars, pollVars, resultsVars>>

NextApi == \E e \in Endpoints : \E r \in ApiResponses : ApiCall(e, r)

SpecApi == Init /\ [][NextApi]_vars

(***************************************************************************)
(* Properties.                                                             *)
(***************************************************************************)
Last(s) == s[Len(s)]
Front(s) == SubSeq(s, 1, Len(s) - 1)

\* C1: every submission whose source is a file larger than 50 MiB invokes
\* the Async Job Poller, with the async flag on or off and for both feed
\* types.
C1_LargeFileUsesPoller ==
  (runs > 0 /\ form.sourceType = "file" /\ form.feedFile # NoFile
     /\ form.feedFile.size > 50 * 1024 * 1024)
    => (strategy = "checkFeedWithPolling" /\ jobs[runs] # NoJob)

C1_Witness ==
  /\ runs > 0 /\ form.sourceType = "file" /\ form.feedFile # NoFile
  /\ form.feedFile.size = 80 * 1024 * 1024 /\ ~form.useAsyncMode
  /\ form.feedType = "delta" /\ strategy = "checkFeedWithPolling"

\* the strategy the selector's rules name for a form, in their order
ExpectedStrategy(f) ==
  IF f.useAsyncMode
       \/ (f.sourceType = "file" /\ f.feedFile # NoFile
             /\ f.feedFile.size > 50 * 1024 * 1024)
    THEN "checkFeedWithPolling"
  ELSE IF f.sourceType = "file" THEN "uploadWithProgress"
  ELSE IF f.feedType = "xml" THEN "checkFeedWithProgress"
  ELSE "checkFeed"

\* C2: a submission that passes validation invokes exactly one strategy, the
\* first that matches: async flag or file over 50 MiB -> poller; else a file
\* (up to and including 50 MiB) -> upload with progress; else URL and xml ->
\* stream; else (URL and delta) -> checkFeed.
C2_SelectorFirstMatch ==
  [][runs' = runs + 1 =>
       /\ strategy' = ExpectedStrategy(form')
       /\ (xhr'.state = "sent") <=> (strategy' \in {"uploadWithProgress", "checkFeed"})
       /\ (eventSource' = "open") <=> (strategy' = "checkFeedWithProgress")
       /\ (jobs'[runs'] # NoJob) <=> (strategy' = "checkFeedWithPolling")
       /\ promise' = [state |-> "pending"]]_vars

C2_Witness ==
  /\ runs > 0 /\ form.sourceType = "file" /\ form.feedFile # NoFile
  /\ form.feedFile.size = 50 * 1024 * 1024 /\ ~form.useAsyncMode
  /\ strategy = "uploadWithProgress" /\ xhr.state = "sent"

C4_ProgressNonDecreasing ==
  \A i \in 1..(Len(progressLog) - 1) : progressLog[i] <= progressLog[i + 1]

\* C5: once a polled status was completed or completed_with_errors the timer
\* is stopped and exactly one include_result request has been sent in the run.
C5_OneResultRequest ==
  finalRequests > 0 => (~pollTimer /\ finalRequests = 1)

\* what the stream's callbacks are to receive for one event
Forwarded(d) ==
  IF d.type = "progress"
    THEN <<[fn |-> "onProgress", loaded |-> d.loaded, total |-> d.total,
            percentage |-> d.percentage]>>
  ELSE IF d.type = "start"
    THEN <<[fn |-> "onStatusChange",
            status |-> IF "message" \in DOMAIN d THEN d.message ELSE MsgStarting]>>
  ELSE IF d.type = "downloading"
    THEN <<[fn |-> "onStatusChange",
            status |-> IF "message" \in DOMAIN d THEN d.message ELSE MsgDownloading]>>
  ELSE IF d.type = "processing"
    THEN <<[fn |-> "onStatusChange",
            status |-> IF "message" \in DOMAIN d THEN d.message ELSE MsgProcessing]>>
  ELSE <<>>

RECURSIVE ForwardedAll(_)
ForwardedAll(events) ==
  IF events = <<>> THEN <<>>
  ELSE ForwardedAll(Front(events)) \o Forwarded(Last(events))

StreamEndedWith(type) ==
  /\ strategy = "checkFeedWithProgress" /\ received # <<>>
  /\ Last(received) # NoJson /\ Last(received).type = type

\* C6: when a complete event arrives before any error event, malformed event
\* or transport failure, the connection is closed, the run resolves with the
\* result embedded in that event, and the earlier progress events went to
\* the progress callback and the start/downloading/processing events to the
\* status callback, in arrival order.
C6_StreamSuccess ==
  StreamEndedWith("complete") =>
    /\ eventSource = "closed"
    /\ promise.state = "settled" /\ promise.outcome.ok
    /\ promise.outcome.value = (IF "result" \in DOMAIN Last(received)
                                  THEN Last(received).result ELSE NoResult)
    /\ calls = ForwardedAll(Front(received))

C6_Witness ==
  /\ StreamEndedWith("complete") /\ Len(received) = 3
  /\ received[1].type = "start" /\ received[2].type = "progress"
  /\ promise.state = "settled" /\ promise.outcome.ok
  /\ promise.outcome.value = XmlOk /\ Len(calls) = 2

DetailFields == {"error_code", "message", "url", "http_status", "details"}

\* C7: on an error event the connection is closed and the run rejects; with
\* error_type download_error the rejection carries the event's error_code,
\* message, url, http_status and details as download detail, otherwise it
\* carries only the event's message, or a generic one when there is none.
C7_StreamErrorEvent ==
  StreamEndedWith("error") =>
    /\ eventSource = "closed"
    /\ promise.state = "settled" /\ ~promise.outcome.ok
    /\ LET d == Last(received) IN
         IF "error_type" \in DOMAIN d /\ d.error_type = "download_error"
           THEN /\ promise.outcome.downloadError # NoDownload
                /\ \A f \in DetailFields \cap DOMAIN d :
                     promise.outcome.downloadError[f] = d[f]
           ELSE /\ promise.outcome.downloadError = NoDownload
                /\ promise.outcome.message =
                     (IF "message" \in DOMAIN d THEN d.message ELSE MsgCheckFailed)

C7_Witness ==
  /\ StreamEndedWith("error") /\ promise.state = "settled"
  /\ promise.outcome.downloadError # NoDownload
  /\ promise.outcome.downloadError.error_code = "HTTP_ERROR"
  /\ promise.outcome.downloadError.http_status = 404

\* a gateway page: no JSON content-type and a body that starts with an HTML
\* doctype or html tag
IsGatewayPage(r) ==
  /\ ~IsNetworkFailure(r) /\ ~r.json
  /\ Len(r.body.text) >= 5
  /\ \/ SubSeq(r.body.text, 1, 2) = <<"<", "!">>
     \/ SubSeq(r.body.text, 1, 5) = <<"<", "h", "t", "m", "l">>

\* the errors that tell the user the server could not be reached
ConnectionFailure(o) ==
  ~o.ok /\ o.message \in {MsgBadGateway, MsgBadGatewayLong, MsgHtmlPage, MsgNoConnection}

\* C8: on each of the seven endpoints a gateway page is reported as a
\* connection failure, whatever its HTTP status, never as a success or as
\* another kind of error.
C8_GatewayPageIsConnectionFailure ==
  (endpoint # "none" /\ IsGatewayPage(response)) => ConnectionFailure(apiOutcome)

FailedWrites == {i \in DOMAIN writes : writes[i].error # ""}

\* C9: when the first write fails with a quota error and the write of the
\* reduced summary fails too, the "too large" error is set, the view stays
\* on the form with nothing handed to the results view, and loading is over.
C9_HandoffOverflow ==
  (FailedWrites # {} /\ writes[1].key = "feedCheckResult"
     /\ \E i \in FailedWrites : writes[i].error = "QuotaExceededError"
     /\ Cardinality(FailedWrites) = 2)
    => (error = MsgTooLarge /\ downloadError = NoDownload /\ route = "/"
          /\ navState = NoNavState /\ ~isLoading)

C9_Witness ==
  /\ Cardinality(FailedWrites) = 2 /\ writes[1].error = "QuotaExceededError"
  /\ error = MsgTooLarge /\ route = "/" /\ ~isLoading

\* an embedded error with the download-error shape: an object whose
\* error_type names a download error or that carries an error_code
DownloadShaped(e) ==
  /\ e # NoError /\ ~IsString(e)
  /\ \/ "error_code" \in DOMAIN e
     \/ ("error_type" \in DOMAIN e /\ e.error_type \in {"DOWNLOAD_ERROR", "download_error"})

PanelFields == {"error_code", "message", "url", "http_status", "status_code", "details"}

\* the fields of a download detail the rich panel renders
Panel(d) == [f \in PanelFields \cap DOMAIN d |-> d[f]]

\* C10: a poller run that rejects because the job failed with a
\* download-shaped error carries download detail, with the fields the panel
\* renders equal to those Direct Submit produces for the same detail.
C10_PollerDownloadParity ==
  (strategy = "checkFeedWithPolling" /\ promise.state = "settled"
     /\ ~promise.outcome.ok /\ jobs[runs].status = "failed"
     /\ DownloadShaped(jobs[runs].error)
     /\ promise.outcome.message = jobs[runs].error.message)
    => /\ promise.outcome.downloadError # NoDownload
       /\ Panel(promise.outcome.downloadError)
            = Panel(CheckFeedErrorDetail([detail |-> jobs[runs].error]).downloadError)


\* the current run's callback takes a status response that says "failed"
FailedStatusHandled(req) ==
  /\ req.kind = "status" /\ req.run = runs /\ req.response # NoResponse
  /\ req \notin requests'
  /\ getJobStatus(req.response).ok
  /\ getJobStatus(req.response).value.status = "failed"

\* status.error of the response a status request got
EmbeddedError(req) ==
  LET status == getJobStatus(req.response).value IN
    IF "error" \in DOMAIN status THEN status.error ELSE NoError

\* the rejection the failed-status rule names for the embedded error e
FailureAsSpecified(o, e) ==
  IF e # NoError /\ ~IsString(e) THEN
    IF DownloadShaped(e) THEN o.downloadError = e
    ELSE /\ o.downloadError = NoDownload
         /\ "message" \in DOMAIN e => o.message = e.message
  ELSE o.downloadError = NoDownload /\ o.message = "Error while processing the feed"

\* C11: when the poller's callback takes a failed status while the run is
\* pending, the timer is stopped and the run rejects; an object error is
\* classified by its shape (download-shaped: the object is attached,
\* otherwise the object's message), a string or absent error gives the
\* generic message.
C11_FailedStatusRejects ==
  [][\A req \in requests :
       (FailedStatusHandled(req) /\ promise.state = "pending")
         => /\ ~pollTimer' /\ promise'.state = "settled" /\ ~promise'.outcome.ok
            /\ FailureAsSpecified(promise'.outcome, EmbeddedError(req))]_vars

\* a step of a stream run in which the promise settles without a message
\* event having been dispatched: the transport failed
TransportFailure ==
  /\ strategy = "checkFeedWithProgress" /\ runs' = runs /\ eventSource = "open"
  /\ received' = received
  /\ promise.state = "pending" /\ promise'.state = "settled"

\* C12: a transport failure of the stream closes the connection and rejects
\* with the connection error; a connection is opened only by the start of a
\* run, and once closed it stays closed for the rest of the run.
C12_TransportFailureNoReconnect ==
  [][/\ TransportFailure
          => /\ eventSource' = "closed"
             /\ promise'.outcome = Reject("Error connecting to the server")
     /\ (eventSource' = "open" /\ eventSource # "open") => runs' = runs + 1
     /\ (eventSource = "closed" /\ runs' = runs) => eventSource' = "closed"]_vars

C12_Witness ==
  /\ strategy = "checkFeedWithProgress" /\ eventSource = "closed"
  /\ Len(received) >= 1 /\ \A i \in DOMAIN received : received[i] # NoJson
  /\ \A i \in DOMAIN received : received[i].type \in {"start", "downloading", "progress"}
  /\ promise.state = "settled" /\ settleCalls = 1
  /\ promise.outcome = Reject("Error connecting to the server")

\* the first attempt of the handoff wrote both items
FirstWriteSucceeded == writes # <<>> /\ \A i \in DOMAIN writes : writes[i].error = ""

\* C13: whenever the handoff has navigated to the results view, the view
\* shows the full original result: read back from sessionStorage when the
\* first write succeeded, taken from the navigation state, while
\* sessionStorage holds the reduced summary, when the first write hit the
\* quota and the reduced write succeeded.
C13_HandoffDeliversFullResult ==
  route = "/results" =>
    /\ promise.state = "settled" /\ promise.outcome.ok
    /\ resultsView.loaded => resultsView.result = promise.outcome.value
    /\ IF FirstWriteSucceeded
         THEN navState = NoNavState /\ storage.feedCheckResult = promise.outcome.value
         ELSE /\ \E i \in DOMAIN writes : writes[i].error = "QuotaExceededError"
              /\ navState # NoNavState /\ navState.fullResult = promise.outcome.value
              /\ storage.feedCheckResult
                   = MinimalResult(promise.outcome.value, form.feedType)

C13_Witness ==
  /\ route = "/results" /\ resultsView.loaded /\ form.feedType = "xml"
  /\ writes # <<>> /\ writes[1].error = "QuotaExceededError"
  /\ resultsView.result = promise.outcome.value
  /\ storage.feedCheckResult # promise.outcome.value
  /\ "problematic_offers" \in DOMAIN resultsView.result

\* the job of the current poller run exists on the backend
JobExists == jobs[runs].status \notin {"creating", "none"}

\* no completed or failed status has been taken and the run has not settled
RunPolling ==
  /\ strategy = "checkFeedWithPolling" /\ JobExists
  /\ promise.state = "pending" /\ finalRequests = 0

\* C14: in a poller run the interval timer is set exactly from the creation
\* of the job until a terminal status is observed or the run settles: it is
\* cleared once a completed or failed status was taken, none remains when
\* the run has settled, and no tick starts after that point.
C14_TimerLifecycle ==
  /\ [](pollTimer <=> RunPolling)
  /\ [][ticks' > ticks => RunPolling]_vars

C14_Witness ==
  /\ strategy = "checkFeedWithPolling" /\ ~pollTimer /\ ticks >= 2
  /\ jobs[runs].status = "failed" /\ promise.state = "settled"
  /\ ~promise.outcome.ok /\ finalRequests = 0
  /\ \E req \in requests : req.run = runs /\ req.kind = "status"

\* the current run's callback takes a status response that says the job is
\* still pending or processing
RunningStatusHandled(req) ==
  /\ req.kind = "status" /\ req.run = runs /\ req.response # NoResponse
  /\ req \notin requests'
  /\ getJobStatus(req.response).ok
  /\ getJobStatus(req.response).value.status \in {"pending", "processing"}

\* the job has reached a terminal status while a poll of the run is still to
\* come or still to be answered
TerminalToObserve ==
  /\ strategy = "checkFeedWithPolling" /\ JobExists
  /\ jobs[runs].status \in {"completed", "completed_with_errors", "failed"}
  /\ \/ pollTimer /\ ticks < MaxTicks
     \/ \E req \in requests : req.run = runs /\ req.response = NoResponse

\* C15: a status of pending or processing neither settles the promise nor
\* stops the timer, however many polls came before (no timeout, no retry
\* cap); and when the job has reached a terminal status and polls are still
\* sent and answered, the promise eventually settles.
C15_PollsUntilTerminal ==
  /\ [][\A req \in requests :
          RunningStatusHandled(req)
            => promise' = promise /\ pollTimer' = pollTimer /\ ticks' = ticks]_vars
  /\ TerminalToObserve ~> (promise.state = "settled")

C15_Witness ==
  /\ strategy = "checkFeedWithPolling" /\ ticks = MaxTicks /\ pollTimer
  /\ promise.state = "pending" /\ requests = {}
  /\ Len(progressLog) > MaxTicks

\* a response without a JSON content-type whose body is an HTML page
HtmlErrorPage(r) ==
  ~r.json /\ (LooksLikeHtml(r.body.text) \/ LooksLikeHtmlLower(r.body.text))

\* C16: deleteJob completes without raising on every response that is not
\* JSON or not OK, except that an HTML page without a JSON content-type
\* raises the server-unavailable error.
C16_DeleteJobBestEffort ==
  (endpoint = "job-delete" /\ ~IsNetworkFailure(response)
     /\ (~response.json \/ ~IsOk(response)))
    => IF HtmlErrorPage(response) THEN ConnectionFailure(apiOutcome)
       ELSE apiOutcome.ok

\* the successors the transition table of the stream gives each event type
TableNext(type) ==
  CASE type = "start" -> {"downloading", "error"}
    [] type = "downloading" -> {"downloading", "processing", "error"}
    [] type = "progress" -> {"progress", "processing", "error"}
    [] type = "processing" -> {"complete", "error"}
    [] OTHER -> {}

TableTypes == {"start", "downloading", "progress", "processing", "complete", "error"}

\* C17 as stated: the events processed in one run follow the transition
\* table from one event to the next, complete and error having no successor.
C17_StreamTransitionTable ==
  (/\ strategy = "checkFeedWithProgress"
   /\ \A i \in DOMAIN received : received[i] # NoJson /\ received[i].type \in TableTypes)
    => \A i \in 1..(Len(received) - 1) :
         received[i + 1].type \in TableNext(received[i].type)

\* an event that ends the stream: complete, error, or one that is not JSON
TerminalEvent(d) == d = NoJson \/ d.type \in {"complete", "error"}

\* the events of the run that came before its terminal event, if any
BeforeTerminal ==
  IF received # <<>> /\ TerminalEvent(Last(received)) THEN Front(received) ELSE received

\* C17: the stream's events are processed in whatever order they arrive,
\* each one forwarded to its callback whatever came before it; complete and
\* error (and an event that is not JSON) are terminal: the connection is
\* closed, the run is settled, and no event is processed and no callback is
\* invoked after them.
C17_TerminalEventsEndStream ==
  strategy = "checkFeedWithProgress" =>
    /\ \A i \in 1..(Len(received) - 1) : ~TerminalEvent(received[i])
    /\ calls = ForwardedAll(BeforeTerminal)
    /\ (received # <<>> /\ TerminalEvent(Last(received)))
         => eventSource = "closed" /\ promise.state = "settled"

C17_Witness ==
  /\ strategy = "checkFeedWithProgress" /\ Len(received) = 3
  /\ \A i \in DOMAIN received : received[i] # NoJson
  /\ received[1].type = "progress" /\ received[2].type = "downloading"
  /\ received[3].type = "error"
  /\ Len(calls) = 2 /\ calls[1].fn = "onProgress" /\ calls[2].fn = "onStatusChange"
  /\ eventSource = "closed" /\ promise.state = "settled" /\ ~promise.outcome.ok
  /\ route = "/" /\ ~isLoading

\* a detail object Direct Submit is to classify as a download error
DirectDownloadShaped(detail) ==
  /\ ~IsString(detail)
  /\ \/ ("error_type" \in DOMAIN detail /\ detail.error_type = "DOWNLOAD_ERROR")
     \/ Has(detail, "error_code")

\* a Direct Submit request answered by a non-OK JSON response with such a detail
DirectDownloadFailure ==
  /\ strategy \in {"checkFeed", "uploadWithProgress"} /\ xhr.state = "done"
  /\ ~IsNetworkFailure(xhr.response) /\ xhr.response.json /\ ~IsOk(xhr.response)
  /\ Parses(xhr.response.body) /\ "detail" \in DOMAIN xhr.response.body.data
  /\ DirectDownloadShaped(xhr.response.body.data.detail)

\* C18: on both Direct Submit paths a non-OK JSON response whose detail has
\* error_type "DOWNLOAD_ERROR" or carries an error_code rejects the run as a
\* download error with the detail object attached unchanged.
C18_DirectDownloadClassification ==
  DirectDownloadFailure
    => /\ promise.state = "settled" /\ ~promise.outcome.ok
       /\ promise.outcome.downloadError = xhr.response.body.data.detail

\* the current run's callback takes the response to its include_result request
FinalHandled(req) ==
  /\ req.kind = "final" /\ req.run = runs /\ req.response # NoResponse
  /\ req \notin requests'

\* a JSON response that parses and has no result field
JsonWithoutResult(r) ==
  /\ ~IsNetworkFailure(r) /\ r.json /\ IsOk(r) /\ Parses(r.body)
  /\ "result" \notin DOMAIN r.body.data

\* C19: when the include_result request is answered by an HTML page without
\* a JSON content-type the run rejects as a gateway failure, when it is
\* answered by JSON without a result field the run rejects with the
\* result-not-found error; in neither case the run resolves.
C19_ResultFetchFailures ==
  [][\A req \in requests :
       FinalHandled(req) =>
         /\ (~IsNetworkFailure(req.response) /\ HtmlErrorPage(req.response))
              => /\ promise'.state = "settled" /\ ~promise'.outcome.ok
                 /\ promise.state = "pending" => promise'.outcome = Reject(MsgBadGateway)
         /\ JsonWithoutResult(req.response)
              => /\ promise'.state = "settled" /\ ~promise'.outcome.ok
                 /\ promise.state = "pending"
                      => promise'.outcome = Reject(MsgResultNotFound)]_vars

\* the handoff built the reduced object: a write failed and another followed
ReducedBuilt == \E j \in FailedWrites : j < Len(writes)

\* the reduced object, as handed to the setItem call after the first failure
Reduced ==
  writes[(CHOOSE i \in FailedWrites : \A j \in FailedWrites : i <= j) + 1].value

Counters == {"total_offers", "valid_offers", "problems_count", "problems_summary"}

\* C20 as stated: the reduced object of an xml result holds only site_id,
\* feed_type, syntax and the coarse counters; that of a delta result holds
\* every field of the original.
C20_ReducedOnlyCounters ==
  (ReducedBuilt /\ form.feedType = "xml")
    => /\ DOMAIN Reduced \subseteq {"site_id", "feed_type", "syntax", "mandatory"}
       /\ "mandatory" \in DOMAIN Reduced => DOMAIN Reduced.mandatory \subseteq Counters

\* C20: the reduced object of an xml result holds site_id, feed_type, syntax,
\* the four coarse counters of mandatory and the category issues, each as in
\* the original, and none of problematic_offers, category_tree, params_stats
\* and attributes_analysis; that of a delta result holds every field of the
\* original.
C20_ReducedShape ==
  ReducedBuilt =>
    LET original == promise.outcome.value IN
      IF form.feedType = "xml"
        THEN /\ DOMAIN Reduced = ((DOMAIN original)
                                    \cap {"site_id", "syntax", "mandatory", "categories"})
                                   \cup {"feed_type"}
             /\ Reduced.feed_type = FieldOr(original, "feed_type", "xml")
             /\ \A f \in (DOMAIN Reduced) \ {"feed_type", "mandatory"} :
                  Reduced[f] = original[f]
             /\ "mandatory" \in DOMAIN Reduced =>
                  /\ DOMAIN Reduced.mandatory = (DOMAIN original.mandatory) \cap Counters
                  /\ \A g \in DOMAIN Reduced.mandatory :
                       Reduced.mandatory[g] = original.mandatory[g]
             /\ (DOMAIN Reduced) \cap HeavyFields = {}
        ELSE \A f \in DOMAIN original : f \in DOMAIN Reduced /\ Reduced[f] = original[f]

C20_Witness ==
  /\ ReducedBuilt /\ form.feedType = "xml" /\ promise.outcome.value = XmlOk
  /\ DOMAIN Reduced = {"site_id", "feed_type", "syntax", "mandatory", "categories"}
  /\ route = "/results" /\ storage.feedCheckResult = Reduced


\* the upload progress card shows an estimate: the last progress event of
\* uploadWithProgress has been handled
UploadShown == "speed" \in DOMAIN uploadProgress

\* C21: on every upload progress event the estimated time remaining is
\* (total - loaded) / speed when the speed is positive, and a non-finite
\* value, shown as unknown, when the speed is 0.
C21_TimeRemainingEstimate ==
  UploadShown =>
    LET p == uploadProgress IN
      IF p.speed.num > 0
        THEN /\ IsFinite(p.timeRemaining)
             /\ p.timeRemaining.num * p.speed.num
                  = (p.total - p.loaded) * p.speed.den * p.timeRemaining.den
        ELSE /\ ~IsFinite(p.timeRemaining)
             /\ formatTime(p.timeRemaining).text = "unknown"

\* an upload progress event handled (the listener of xhr.upload ran)
UploadEventStep ==
  /\ strategy = "uploadWithProgress" /\ xhr.state = "sent" /\ xhr'.state = "sent"
  /\ xhr'.event # xhr.event \/ uploadProgress' # uploadProgress

\* C29: on each upload progress event the speed is the bytes sent since the
\* previous event (since send for the first) over the time since that event,
\* 0 when no time has elapsed, and the baseline time and byte count become
\* those of the event.
C29_SpeedOverLastInterval ==
  [][UploadEventStep =>
       LET elapsed == xhr'.event.timeStamp - xhr.event.timeStamp
           bytes == xhr'.event.loaded - xhr.event.loaded
           speed == uploadProgress'.speed
       IN /\ uploadProgress'.loaded = xhr'.event.loaded
          /\ IF elapsed > 0 THEN speed.num * elapsed = bytes * speed.den
                            ELSE speed.num = 0
          /\ IsFinite(speed)
          /\ xhr'.startTime = xhr'.event.timeStamp
          /\ xhr'.startLoaded = xhr'.event.loaded]_vars

\* a second progress event measured from the first one, with bytes sent and
\* time elapsed since it
C29_Witness ==
  /\ UploadShown /\ xhr.state = "sent"
  /\ xhr.event.timeStamp = MaxElapsed + 1
  /\ uploadProgress.speed.num > 0
  /\ uploadProgress.speed.num * MaxElapsed < uploadProgress.loaded * uploadProgress.speed.den


\* C22: a failed check whose error carries download detail shows the
\* download-error panel and no plain message, any other failure shows the
\* plain message and no panel, and through every sequence of submissions the
\* two are never shown together.
C22_ErrorPresentationExclusive ==
  /\ [](~(error # Null /\ downloadError # NoDownload))
  /\ [][(Resuming /\ ~promise.outcome.ok) =>
          IF promise.outcome.downloadError # NoDownload
            THEN downloadError' = promise.outcome.downloadError /\ error' = Null
            ELSE error' = promise.outcome.message /\ downloadError' = NoDownload]_vars

\* the second check of a session has failed with download detail and shows
\* the panel
C22_Witness ==
  /\ runs = MaxChecks /\ ~isLoading /\ promise.state = "settled"
  /\ ~promise.outcome.ok /\ promise.outcome.downloadError # NoDownload
  /\ downloadError = promise.outcome.downloadError /\ error = Null

\* C23: while a check is active in a Home view (from the start of its
\* strategy to the end of handleSubmit) the loading flag is set, and no
\* strategy is started while the flag is set.
C23_OneActiveCheck ==
  /\ [](promise.state = "pending" => isLoading)
  /\ [][isLoading => runs' = runs /\ strategy' = strategy]_vars

\* a second check is active, started after the first one had finished
C23_Witness == runs = MaxChecks /\ isLoading /\ promise.state = "pending"


\* the result of the check whose handoff is running, as the handoff can
\* store it: whole or reduced
HandoffResults ==
  {promise.outcome.value, MinimalResult(promise.outcome.value, form.feedType)}

\* C28: a handoff, whether its writes succeed or fail, leaves under
\* "feedCheckResult" and "feedSource" values of the same check: when it has
\* stored the result of its check, the source context stored is absent or
\* that of the same check, and it stores a source context only next to the
\* result of its check.
C28_HandoffKeysConsistent ==
  [][(Resuming /\ ReachesHandoff(promise.outcome, form)) =>
       /\ storage'.feedCheckResult # storage.feedCheckResult
            => storage'.feedSource \in {NoItem, SourceContext(form)}
       /\ storage'.feedSource # storage.feedSource
            => storage'.feedCheckResult \in HandoffResults]_vars


\* the promise of the running Async Job Poller has settled
PollerSettled == strategy = "checkFeedWithPolling" /\ promise.state = "settled"

\* C24: once the promise of the Async Job Poller has settled the progress
\* callback is not invoked again, so the progress and the status message
\* cleared at the end of handleSubmit stay cleared.
C24_NoProgressAfterSettle ==
  /\ [][PollerSettled => progressLog' = progressLog]_vars
  /\ []((PollerSettled /\ ~isLoading) => (uploadProgress = NoProgress /\ statusMessage = ""))

\* C25: at most one job-status request of a poller run is in flight: a tick
\* sends none while a status request or a result fetch of the run is
\* unfinished.
C25_OneStatusRequestInFlight ==
  /\ [](Cardinality({req \in requests : req.run = runs /\ req.kind = "status"}) <= 1)
  /\ [][ticks' > ticks => {req \in requests : req.run = runs} = {}]_vars


\* the operations that return data parsed from the response
DataEndpoints ==
  {"check-feed", "check-feed-async", "job-status", "check-syntax",
   "get-problematic-offers", "job-result"}

\* C26: checkFeed, checkFeedAsync, getJobStatus, checkSyntax,
\* getProblematicOffers and the final result fetch of the poller never
\* resolve on a response with a non-OK status, whatever its content-type and
\* body.
C26_NoSuccessForFailedResponse ==
  (endpoint \in DataEndpoints /\ ~IsNetworkFailure(response) /\ ~IsOk(response))
    => ~apiOutcome.ok


\* the callback of a tick of the running poller handles a status poll that
\* has failed (getJobStatus threw)
FailedPollHandled(req) ==
  /\ req \in requests /\ req \notin requests'
  /\ req.kind = "status" /\ req.run = runs /\ req.response # NoResponse
  /\ ~getJobStatus(req.response).ok

\* C27: when a status poll fails the poller stops the timer, sends no
\* further status request and the run is rejected, with the error of that
\* poll when the run was still pending.
C27_NoRetryAfterFailedPoll ==
  /\ [][\A req \in requests : FailedPollHandled(req) =>
          /\ ~pollTimer' /\ ticks' = ticks
          /\ promise'.state = "settled" /\ ~promise'.outcome.ok
          /\ promise.state = "pending"
               => promise'.outcome = getJobStatus(req.response)]_vars
  /\ [][ticks' > ticks => pollTimer]_vars


StreamTypes == {"start", "downloading", "progress", "processing", "complete", "error"}
MsgHandling == "Error while handling the server response"

\* the stream delivers a message to onmessage
MessageStep == strategy = "checkFeedWithProgress" /\ Len(received') = Len(received) + 1

\* C30: a message whose data is not valid JSON, or a callback that throws
\* while a message is handled, closes the connection and rejects the run; a
\* message of an unrecognised type changes nothing: the run stays pending,
\* the connection open, no callback is invoked.
C30_StreamRobustness ==
  [][MessageStep =>
       LET data == Last(received')
           threw == Len(calls') > Len(calls) /\ "threw" \in DOMAIN Last(calls')
       IN IF data = NoJson \/ threw
            THEN /\ eventSource' = "closed"
                 /\ promise'.state = "settled" /\ promise'.outcome = Reject(MsgHandling)
          ELSE (data.type \notin StreamTypes) =>
                 /\ eventSource' = "open" /\ promise'.state = "pending"
                 /\ calls' = calls /\ statusMessage' = statusMessage
                 /\ uploadProgress' = uploadProgress]_vars

\* a message of an unrecognised type was ignored and the next one, not
\* valid JSON, ended the run
C30_Witness ==
  /\ Len(received) = 2 /\ received[1] # NoJson /\ received[1].type \notin StreamTypes
  /\ received[2] = NoJson
  /\ eventSource = "closed" /\ promise.state = "settled"
  /\ promise.outcome = Reject(MsgHandling)

=============================================================================
